---------------------------- MODULE Spec2Model ----------------------------
(***************************************************************************)
(* TailorCV vector service: the cv.created consumer (mq_consumer.py), the  *)
(* indexing pipeline (service.py, embedder.py, pinecone_client.py) and the *)
(* retriever (service.py).  Strings are TLA+ strings handled as Python     *)
(* handles them (strip, lower, slicing, substring test); JSON values are   *)
(* tagged records; Python dicts are insertion-ordered lists of pairs.      *)
(***************************************************************************)
EXTENDS Integers, Sequences, FiniteSets, TLC

(***************************************************************************)
(* Python text primitives                                                  *)
(***************************************************************************)
UpperChars == "ABCDEFGHIJKLMNOPQRSTUVWXYZ"
LowerChars == "abcdefghijklmnopqrstuvwxyz"
DigitChars == "0123456789"

CharAt(s, i) == SubSeq(s, i, i)

IsSpace(c) == c \in {" ", "\t", "\n", "\r"}

LowerOf == [i \in 1..Len(UpperChars) |-> CharAt(LowerChars, i)]
UpperIndex == [c \in {CharAt(UpperChars, i) : i \in 1..Len(UpperChars)} |->
                 CHOOSE i \in 1..Len(UpperChars) : CharAt(UpperChars, i) = c]

LowerChar(c) == IF c \in DOMAIN UpperIndex THEN LowerOf[UpperIndex[c]] ELSE c

RECURSIVE Lower(_)
Lower(s) == IF Len(s) <= 1 THEN LowerChar(s)
            ELSE LET half == Len(s) \div 2
                 IN  Lower(SubSeq(s, 1, half)) \o Lower(SubSeq(s, half + 1, Len(s)))

RECURSIVE LStrip(_)
LStrip(s) == IF s = "" THEN ""
             ELSE IF IsSpace(CharAt(s, 1)) THEN LStrip(Tail(s)) ELSE s

RECURSIVE RStrip(_)
RStrip(s) == IF s = "" THEN ""
             ELSE IF IsSpace(CharAt(s, Len(s))) THEN RStrip(SubSeq(s, 1, Len(s) - 1)) ELSE s

Strip(s) == RStrip(LStrip(s))

\* Python's  needle in hay  on strings.
Contains(needle, hay) ==
    \E i \in 1..(Len(hay) - Len(needle) + 1) : SubSeq(hay, i, i + Len(needle) - 1) = needle

\* Python's  s[:n].
Trunc(s, n) == IF Len(s) <= n THEN s ELSE SubSeq(s, 1, n)

RECURSIVE ToStr(_)
ToStr(n) == IF n < 10 THEN CharAt(DigitChars, n + 1)
            ELSE ToStr(n \div 10) \o CharAt(DigitChars, (n % 10) + 1)

(***************************************************************************)
(* JSON values as json.loads / response.json() produce them                *)
(***************************************************************************)
JNull == [t |-> "null"]
JStr(s) == [t |-> "str", v |-> s]
JInt(n) == [t |-> "int", v |-> n]
JList(l) == [t |-> "list", v |-> l]
JDict(d) == [t |-> "dict", v |-> d]

\* Python truthiness ( if x: / not x ).
Truthy(j) == CASE j.t = "null" -> FALSE
               [] j.t = "str" -> j.v # ""
               [] j.t = "int" -> j.v # 0
               [] OTHER -> Len(j.v) > 0

HasKey(d, k) == \E i \in 1..Len(d.v) : d.v[i][1] = k

\* dict.get(k, default)
Get(d, k, default) ==
    IF HasKey(d, k) THEN d.v[CHOOSE i \in 1..Len(d.v) : d.v[i][1] = k][2] ELSE default

\* {**d, k: v}: an existing key keeps its position and takes the new value.
DictSet(pairs, k, v) ==
    IF \E i \in 1..Len(pairs) : pairs[i][1] = k
    THEN [i \in 1..Len(pairs) |-> IF pairs[i][1] = k THEN <<k, v>> ELSE pairs[i]]
    ELSE Append(pairs, <<k, v>>)

RECURSIVE DictMerge(_, _)
DictMerge(pairs, more) ==
    IF more = <<>> THEN pairs
    ELSE DictMerge(DictSet(pairs, more[1][1], more[1][2]), Tail(more))

Iterable(j) == j.t \in {"list", "str", "dict"}

\* The items a Python for-loop yields over a JSON value.
Items(j) == CASE j.t = "list" -> j.v
              [] j.t = "str" -> [i \in 1..Len(j.v) |-> JStr(CharAt(j.v, i))]
              [] j.t = "dict" -> [i \in 1..Len(j.v) |-> JStr(j.v[i][1])]
              [] OTHER -> <<>>

RECURSIVE Repr(_)
RECURSIVE ReprItems(_, _)
RECURSIVE ReprPairs(_, _)
\* repr() of a value, as str(dict) / str(list) print it.
Repr(j) == CASE j.t = "null" -> "None"
             [] j.t = "str" -> "'" \o j.v \o "'"
             [] j.t = "int" -> ToStr(j.v)
             [] j.t = "list" -> "[" \o ReprItems(j.v, 1) \o "]"
             [] OTHER -> "{" \o ReprPairs(j.v, 1) \o "}"
ReprItems(l, i) ==
    IF i > Len(l) THEN ""
    ELSE Repr(l[i]) \o (IF i < Len(l) THEN ", " ELSE "") \o ReprItems(l, i + 1)
ReprPairs(d, i) ==
    IF i > Len(d) THEN ""
    ELSE "'" \o d[i][1] \o "': " \o Repr(d[i][2])
         \o (IF i < Len(d) THEN ", " ELSE "") \o ReprPairs(d, i + 1)

\* str(x), also the f-string conversion {x}.
Format(j) == IF j.t = "str" THEN j.v ELSE Repr(j)

(***************************************************************************)
(* Exceptions: class (with its Python bases) and str(e)                    *)
(***************************************************************************)
Exc(cls, text) == [cls |-> cls, text |-> text]

\* Base classes, nearest first; every class ends in Exception.
Bases(cls) ==
    CASE cls = "MemoryError" -> {"MemoryError", "Exception"}
      [] cls = "OSError" -> {"OSError", "Exception"}
      [] cls = "ConnectionError" -> {"ConnectionError", "RequestException", "OSError", "Exception"}
      [] cls = "ReadTimeout" -> {"ReadTimeout", "RequestException", "OSError", "Exception"}
      [] OTHER -> {cls, "Exception"}

IsInstance(e, base) == base \in Bases(e.cls)

RaiseWith(e) == [ok |-> FALSE, exc |-> e, chunks |-> <<>>]
Returned(chunks) == [ok |-> TRUE, exc |-> Exc("", ""), chunks |-> chunks]

NoGet(j) == Exc("AttributeError", "'" \o j.t \o "' object has no attribute 'get'")
NoStrip(j) == Exc("AttributeError", "'" \o j.t \o "' object has no attribute 'strip'")
NotIterable(j) == Exc("TypeError", "'" \o j.t \o "' object is not iterable")
JoinTypeError == Exc("TypeError", "sequence item: expected str instance")

RECURSIVE Flatten(_)
Flatten(ss) == IF ss = <<>> THEN <<>> ELSE Head(ss) \o Flatten(Tail(ss))

\* Results of the iterations of a loop, in order: the first raise wins,
\* otherwise the chunks of all iterations are concatenated.
Combine(rs) ==
    IF \E i \in 1..Len(rs) : ~rs[i].ok
    THEN rs[CHOOSE i \in 1..Len(rs) : ~rs[i].ok /\ \A k \in 1..(i - 1) : rs[k].ok]
    ELSE Returned(Flatten([i \in 1..Len(rs) |-> rs[i].chunks]))


(***************************************************************************)
(* embedder.py: the chunker                                                *)
(***************************************************************************)
Chunk(cv_id, section, text, metadata) ==
    [cv_id |-> cv_id, section |-> section, text |-> text, metadata |-> metadata]

\* if bullet and bullet.strip(): chunks.append(...)
BulletResultKeepBlank(bullet, chunk) ==
    IF ~Truthy(bullet) THEN [ok |-> TRUE, exc |-> Exc("", ""), chunks |-> <<>>]
    ELSE [ok |-> TRUE, exc |-> Exc("", ""), chunks |-> <<chunk>>]

BulletResult(bullet, chunk) ==
    IF ~Truthy(bullet) THEN Returned(<<>>)
    ELSE IF bullet.t # "str" THEN RaiseWith(NoStrip(bullet))
    ELSE IF Strip(bullet.v) = "" THEN Returned(<<>>)
    ELSE Returned(<<chunk>>)

BulletText(prefix, bullet) ==
    Format(prefix) \o " - " \o (IF bullet.t = "str" THEN Strip(bullet.v) ELSE "")

ExperienceItem(exp, exp_idx, cv_id) ==
    IF exp.t # "dict" THEN RaiseWith(NoGet(exp))
    ELSE LET company == Get(exp, "company", JStr(""))
             title == Get(exp, "title", JStr(""))
             bullets == Get(exp, "bullets", JList(<<>>))
             bs == Items(bullets)
         IN  IF ~Iterable(bullets) THEN RaiseWith(NotIterable(bullets))
             ELSE Combine([b \in 1..Len(bs) |->
                    BulletResult(bs[b],
                      Chunk(cv_id, "experience", BulletText(company, bs[b]),
                            << <<"type", JStr("experience_bullet")>>,
                               <<"company", company>>,
                               <<"title", title>>,
                               <<"exp_index", JInt(exp_idx)>>,
                               <<"bullet_index", JInt(b - 1)>>,
                               <<"location", Get(exp, "location", JStr(""))>>,
                               <<"start_date", Get(exp, "start_date", JStr(""))>>,
                               <<"end_date", Get(exp, "end_date", JStr(""))>> >>))])

chunk_experience_bullets(experience_list, cv_id) ==
    IF ~Iterable(experience_list) THEN RaiseWith(NotIterable(experience_list))
    ELSE LET es == Items(experience_list)
         IN  Combine([i \in 1..Len(es) |-> ExperienceItem(es[i], i - 1, cv_id)])

ProjectItem(project, proj_idx, cv_id) ==
    IF project.t # "dict" THEN RaiseWith(NoGet(project))
    ELSE LET name == Get(project, "name", JStr(""))
             bullets == Get(project, "bullets", JList(<<>>))
             bs == Items(bullets)
             description == Get(project, "description", JStr(""))
             technologies == Get(project, "technologies", JList(<<>>))
         IN  IF Truthy(bullets)
             THEN IF ~Iterable(bullets) THEN RaiseWith(NotIterable(bullets))
                  ELSE Combine([b \in 1..Len(bs) |->
                         BulletResult(bs[b],
                           Chunk(cv_id, "projects", BulletText(name, bs[b]),
                                 << <<"type", JStr("project_bullet")>>,
                                    <<"project_name", name>>,
                                    <<"proj_index", JInt(proj_idx)>>,
                                    <<"bullet_index", JInt(b - 1)>>,
                                    <<"technologies", technologies>>,
                                    <<"link", Get(project, "link", JStr(""))>> >>))])
             ELSE BulletResult(description,
                    Chunk(cv_id, "projects", BulletText(name, description),
                          << <<"type", JStr("project_description")>>,
                             <<"project_name", name>>,
                             <<"proj_index", JInt(proj_idx)>>,
                             <<"technologies", technologies>> >>))

chunk_projects_bullets(projects_list, cv_id) ==
    IF ~Iterable(projects_list) THEN RaiseWith(NotIterable(projects_list))
    ELSE LET ps == Items(projects_list)
         IN  Combine([i \in 1..Len(ps) |-> ProjectItem(ps[i], i - 1, cv_id)])

RECURSIVE JoinFrom(_, _, _)
JoinFrom(sep, parts, i) ==
    IF i > Len(parts) THEN ""
    ELSE parts[i].v \o (IF i < Len(parts) THEN sep ELSE "") \o JoinFrom(sep, parts, i + 1)

\* sep.join(parts): a value [ok, val]; a non-string part is a TypeError.
Join(sep, parts) ==
    IF \E i \in 1..Len(parts) : parts[i].t # "str"
    THEN [ok |-> FALSE, exc |-> JoinTypeError, val |-> JNull]
    ELSE [ok |-> TRUE, exc |-> Exc("", ""), val |-> JStr(JoinFrom(sep, parts, 1))]

\* parts = [first]; then  if x: parts.append(x)  for each of the others.
Parts(first, optional) == <<first>> \o SelectSeq(optional, Truthy)

extract_text_from_object(obj, section) ==
    CASE section = "experience" ->
           IF Truthy(Get(obj, "bullets", JList(<<>>)))
           THEN [ok |-> TRUE, exc |-> Exc("", ""), val |-> JNull]
           ELSE [ok |-> TRUE, exc |-> Exc("", ""),
                 val |-> JStr(Strip(Format(Get(obj, "company", JStr(""))) \o " - "
                                    \o Format(Get(obj, "title", JStr(""))) \o " "
                                    \o Format(Get(obj, "location", JStr("")))))]
      [] section = "projects" ->
           LET techs == Get(obj, "technologies", JList(<<>>))
               tj == Join(", ", Items(techs))
           IN  IF Truthy(techs) /\ ~Iterable(techs)
               THEN [ok |-> FALSE, exc |-> NotIterable(techs), val |-> JNull]
               ELSE IF Truthy(techs) /\ ~tj.ok THEN tj
               ELSE Join(" - ", Parts(Get(obj, "name", JStr("")),
                          <<Get(obj, "description", JStr("")),
                            IF Truthy(techs) THEN JStr("Technologies: " \o tj.val.v)
                            ELSE JStr("")>>))
      [] section = "education" ->
           LET gpa == Get(obj, "gpa", JStr(""))
           IN  Join(" - ", Parts(Get(obj, "institution", JStr("")),
                      <<Get(obj, "degree", JStr("")),
                        Get(obj, "field", JStr("")),
                        IF Truthy(gpa) THEN JStr("GPA: " \o Format(gpa)) ELSE JStr("")>>))
      [] section = "leadership" ->
           Join(" - ", Parts(Get(obj, "role", JStr("")),
                  <<Get(obj, "organization", JStr("")),
                    Get(obj, "description", JStr(""))>>))
      [] section = "certifications" ->
           LET issuer == Get(obj, "issuer", JStr(""))
           IN  Join(" - ", Parts(Get(obj, "name", JStr("")),
                      <<IF Truthy(issuer) THEN JStr("by " \o Format(issuer)) ELSE JStr(""),
                        Get(obj, "date", JStr(""))>>))
      [] OTHER -> [ok |-> TRUE, exc |-> Exc("", ""), val |-> JStr(Repr(obj))]

ListItem(item, idx, section_name, cv_id) ==
    IF item.t = "dict"
    THEN LET x == extract_text_from_object(item, section_name)
         IN  IF ~x.ok THEN RaiseWith(x.exc)
             ELSE IF ~Truthy(x.val) THEN Returned(<<>>)
             ELSE Returned(<<Chunk(cv_id, section_name, x.val.v,
                     DictMerge(<< <<"type", JStr("object")>>, <<"index", JInt(idx)>> >>,
                               item.v))>>)
    ELSE IF item.t = "str" /\ Strip(item.v) # ""
    THEN Returned(<<Chunk(cv_id, section_name, Strip(item.v),
                          << <<"type", JStr("list_item")>>, <<"index", JInt(idx)>> >>)>>)
    ELSE Returned(<<>>)

SkillParts(section_data) ==
    Flatten([i \in 1..Len(section_data.v) |->
               LET items == section_data.v[i][2]
               IN  IF Truthy(items) /\ items.t = "list" THEN items.v ELSE <<>>])

Section(section_name, section_data, cv_id) ==
    IF ~Truthy(section_data) THEN Returned(<<>>)
    ELSE IF section_name = "summary" /\ section_data.t = "dict"
    THEN LET summary_text == Get(section_data, "text", JNull)
         IN  BulletResult(summary_text,
               Chunk(cv_id, section_name,
                     IF summary_text.t = "str" THEN Strip(summary_text.v) ELSE "",
                     << <<"type", JStr("summary")>> >>))
    ELSE IF section_name \in {"contact", "experience", "projects"} THEN Returned(<<>>)
    ELSE IF section_name = "skills" /\ section_data.t = "dict"
    THEN LET skill_parts == SkillParts(section_data)
             skills_text == Join(", ", skill_parts)
         IN  IF skill_parts = <<>> THEN Returned(<<>>)
             ELSE IF ~skills_text.ok THEN RaiseWith(skills_text.exc)
             ELSE Returned(<<Chunk(cv_id, section_name, skills_text.val.v,
                     << <<"type", JStr("skills")>>,
                        <<"categories", JList(Items(section_data))>> >>)>>)
    ELSE IF section_data.t = "list"
    THEN Combine([i \in 1..Len(section_data.v) |->
                    ListItem(section_data.v[i], i - 1, section_name, cv_id)])
    ELSE IF section_data.t = "str" /\ Strip(section_data.v) # ""
    THEN Returned(<<Chunk(cv_id, section_name, Strip(section_data.v),
                          << <<"type", JStr("string")>> >>)>>)
    ELSE Returned(<<>>)

chunk_structured_sections(structured_sections, cv_id) ==
    IF structured_sections.t # "dict"
    THEN RaiseWith(Exc("AttributeError",
                       "'" \o structured_sections.t \o "' object has no attribute 'items'"))
    ELSE Combine([i \in 1..Len(structured_sections.v) |->
                    Section(structured_sections.v[i][1], structured_sections.v[i][2], cv_id)])

\* {k: v for k, v in structured_sections.items() if k not in [...]}
WithoutKeys(d, keys) == JDict(SelectSeq(d.v, LAMBDA p : p[1] \notin keys))

\* service.py, step 2 of process_cv_for_embedding: all_chunks, or the error raised.
ChunkCv(cv_data, cv_id) ==
    LET structured_sections ==
            IF cv_data.t = "dict" THEN Get(cv_data, "structured_sections", JDict(<<>>))
            ELSE JNull
        experience == Get(structured_sections, "experience", JNull)
        projects == Get(structured_sections, "projects", JNull)
    IN  IF cv_data.t # "dict" THEN RaiseWith(NoGet(cv_data))
        ELSE IF structured_sections.t # "dict"
        THEN RaiseWith(Exc("TypeError", "'" \o structured_sections.t \o "' object is not subscriptable"))
        ELSE Combine(<<
               IF Truthy(experience)
               THEN chunk_experience_bullets(experience, cv_id) ELSE Returned(<<>>),
               IF Truthy(projects)
               THEN chunk_projects_bullets(projects, cv_id) ELSE Returned(<<>>),
               chunk_structured_sections(
                   WithoutKeys(structured_sections, {"experience", "projects"}), cv_id) >>)

(***************************************************************************)
(* Bounds and the environment of the consumer                              *)
(***************************************************************************)
NumMsgs == 2

Msgs == 1..NumMsgs

\* The indexer processes of the deployment; Spec runs the first one.
Consumers == {1, 2}
Solo == {1}

REQUIRED_DIMENSION == 768
batch_size == 100
TextLimit == 1000
ExtraLimit == 500

\* Documents of the storing service, by content id; an absent id is a 404.
CvIds == {"a3f0", "b1455c", "dead"}

Resume(sections) == JDict(<< <<"cv_id", JStr("")>>, <<"structured_sections", JDict(sections)>> >>)

DocStore ==
    [cv \in {"a3f0", "b1455c"} |->
       IF cv = "a3f0"
       THEN Resume(<< <<"summary", JDict(<< <<"text", JStr(" S ")>> >>)>>,
                      <<"contact", JDict(<< <<"email", JStr("a@b.c")>> >>)>>,
                      <<"skills", JDict(<< <<"languages", JList(<<JStr("Go")>>)>> >>)>>,
                      <<"experience", JList(<<JDict(<< <<"company", JStr("Acme")>>,
                             <<"bullets", JList(<<JStr("Led X"), JStr("Built Y")>>)>> >>)>>)>>,
                      <<"projects", JList(<<JDict(<< <<"name", JStr("P")>>,
                             <<"bullets", JList(<<>>)>> >>)>>)>> >>)
       ELSE Resume(<< <<"summary", JDict(<< <<"text", JStr("  ")>> >>)>>,
                      <<"experience", JList(<<>>)>> >>)]

\* Message bodies: text that json.loads rejects, or the value it returns.
BadJson == [t |-> "invalid"]
Event(cv_id) == JDict(<< <<"cv_id", cv_id>> >>)
Bodies == {BadJson, JList(<<>>), JDict(<<>>), Event(JNull), Event(JStr(""))}
            \cup {Event(JStr(cv)) : cv \in CvIds}

(***************************************************************************)
(* pinecone_client.py: records                                             *)
(***************************************************************************)
\* f"{chunk['cv_id']}_{chunk['section']}_{i}"
VectorId(chunk, i) == chunk.cv_id \o "_" \o chunk.section \o "_" \o ToStr(i)

IsScalar(j) == j.t \in {"str", "int"}

\* metadata = {cv_id, section, text[:1000]}, then every scalar extra, stringified
\* and cut to 500 characters, stored under its own key.
RecordMetadata(chunk) ==
    LET extras == SelectSeq(chunk.metadata, LAMBDA p : IsScalar(p[2]))
    IN  DictMerge(<< <<"cv_id", chunk.cv_id>>,
                     <<"section", chunk.section>>,
                     <<"text", Trunc(chunk.text, TextLimit)>> >>,
                  [i \in 1..Len(extras) |->
                     <<extras[i][1], Trunc(Format(extras[i][2]), ExtraLimit)>>])

\* model.encode(text, normalize_embeddings=True): a function of the text alone.
Embedding(text) == <<"bge", text>>

VectorsDropLast(chunks) ==
    [i \in 1..(Len(chunks) - 1) |->
       [id |-> chunks[i].cv_id \o "_" \o chunks[i].section \o "_" \o ToStr(i - 1),
        values |-> <<"bge", chunks[i].text>>,
        metadata |-> <<>>]]

Vectors(chunks) ==
    [i \in 1..Len(chunks) |->
       [id |-> VectorId(chunks[i], i - 1),
        values |-> Embedding(chunks[i].text),
        metadata |-> RecordMetadata(chunks[i])]]

BatchAtRest(vectors, i) == SubSeq(vectors, i + 1, Len(vectors))

\* for i in range(0, len(vectors), batch_size): vectors[i:i + batch_size]
BatchAt(vectors, i) ==
    SubSeq(vectors, i + 1, IF i + batch_size < Len(vectors) THEN i + batch_size ELSE Len(vectors))

UpsertedAppend(st, batch) ==
    LET fresh(k) == IF batch[k].id \in DOMAIN st THEN batch[k].id \o "_dup" ELSE batch[k].id
        ids == {fresh(k) : k \in 1..Len(batch)}
        at(id) == CHOOSE k \in 1..Len(batch) : fresh(k) = id
    IN  [id \in (DOMAIN st) \cup ids |->
           IF id \in DOMAIN st THEN st[id]
           ELSE [values |-> batch[at(id)].values, metadata |-> batch[at(id)].metadata]]

\* index.upsert(vectors=batch): insert or overwrite by id, later entries win.
Upserted(st, batch) ==
    LET ids == {batch[k].id : k \in 1..Len(batch)}
        last(id) == CHOOSE k \in 1..Len(batch) :
                       /\ batch[k].id = id
                       /\ \A n \in (k + 1)..Len(batch) : batch[n].id # id
    IN  [id \in (DOMAIN st) \cup ids |->
           IF id \in ids
           THEN [values |-> batch[last(id)].values, metadata |-> batch[last(id)].metadata]
           ELSE st[id]]

(***************************************************************************)
(* mq_consumer.py: the except clauses of callback                          *)
(***************************************************************************)
NackRequeueByClass(e) == "MemoryError" \notin {e.cls}

\* The requeue flag of the basic_nack an exception ends in.
NackRequeue(e) ==
    IF IsInstance(e, "MemoryError") THEN FALSE
    ELSE IF IsInstance(e, "OSError")
    THEN ~(Contains("paging file", Lower(e.text)) \/ Contains("1455", e.text))
    ELSE LET error_msg == Lower(e.text)
         IN  ~(\/ Contains("paging file", error_msg)
               \/ Contains("1455", error_msg)
               \/ Contains("memory", error_msg))

CaughtOnlyOS(e) == e.cls \in {"MemoryError", "OSError", "ConnectionError"}

\* The except clauses catch every Exception.
Caught(e) == IsInstance(e, "MemoryError") \/ IsInstance(e, "OSError") \/ IsInstance(e, "Exception")

Ack == [op |-> "ack", requeue |-> FALSE]
Nack(requeue) == [op |-> "nack", requeue |-> requeue]

ChannelClosed == Exc("ChannelWrongStateError", "Channel is closed.")

(***************************************************************************)
(* State                                                                   *)
(***************************************************************************)
VARIABLES
    queue,      \* broker: ready messages of cv_embedding_queue, head first
    body,       \* broker: body of each published message
    unacked,    \* broker: the delivery each consumer's channel holds unsettled
    connUp,     \* whether each consumer's broker connection is alive
    cons,       \* each consumer process: start_consumer / callback position and locals
    store,      \* the Pinecone index contents: id -> [values, metadata]
    index,      \* the Pinecone index: [exists, dim]
    handle,     \* pinecone_client._index of each process is set
    ackIssued,  \* history: messages for which basic_ack was issued
    firstIds,   \* history: per cv_id, the store ids it had after its first processing
    again,      \* history: per cv_id, whether a later processing completed
    args,       \* find_similar_chunks: the arguments of the call
    matches,    \* find_similar_chunks: what query_similar returned
    loop,       \* find_similar_chunks: position and locals of the call
    rank,       \* search_top_k_cvs: arguments, position and locals of the call
    job,        \* process_cv_for_embedding called on a fetched document
    gw,         \* api_gateway: the /tailored_bullets handler, its position and locals
    thr         \* pinecone_client: threads of one process inside get_index

indexerVars == <<queue, body, unacked, connUp, cons, store, index, handle, ackIssued, firstIds, again>>
findVars == <<args, matches, loop>>
vars == <<indexerVars, findVars, rank, job, gw, thr>>

Unpublished == [t |-> "unpublished"]
NotYet == {"<none>"}

Fresh(pc) ==
    [pc |-> pc, msg |-> 0, cv_id |-> "", all_chunks |-> <<>>, sent |-> 0,
     calls |-> <<>>, fault |-> "none", exc |-> Exc("", ""),
     escaped |-> FALSE, chanErr |-> FALSE, invoked |-> FALSE]

EmptyStore == [id \in {} |-> 0]

\* The locals of find_similar_chunks at position pc, before the first match.
Locals(pc) ==
    [pc |-> pc, i |-> 1, per_cv_counts |-> [k \in {} |-> 0],
     bullet_chunks |-> <<>>, summary_chunks |-> <<>>,
     seen_bullet_keys |-> {}, seen_summary_keys |-> {},
     chunks |-> <<>>, exc |-> Exc("", ""), calls |-> <<>>, status |-> 0]

NoArgs == [jd_text |-> "", min_score |-> 0, max_returned_chunks |-> 0, per_cv_limit |-> 0]

\* The arguments and locals of search_top_k_cvs at position pc, before the
\* first match; calls lists the collaborators called, status is the HTTP
\* status of the route's answer.
RankLocals(pc) ==
    [pc |-> pc, cv_id |-> "", jd_text |-> "", top_k |-> 0, raw_top_k |-> 0,
     matches |-> <<>>, i |-> 1,
     scores_by_cv |-> <<>>, result |-> <<>>, exc |-> Exc("", ""), calls |-> <<>>,
     status |-> 0]

\* process_cv_for_embedding before it is called; sent counts the records
\* index.upsert has taken, calls lists the ids each index.upsert call carried.
NoJob ==
    [pc |-> "idle", cv_id |-> "", cv_data |-> JNull, all_chunks |-> <<>>, exc |-> Exc("", ""),
     sent |-> 0, calls |-> <<>>]

\* The /tailored_bullets handler before a request; sim is what
\* find_similar_chunks returned, calls lists the services called.
NoGw ==
    [pc |-> "idle", job_description |-> "", sim |-> JNull, exc |-> Exc("", ""),
     calls |-> <<>>, status |-> 0, answer |-> JNull]

Threads == {"query", "upsert"}

\* No thread is inside get_index; creates counts the create_index calls issued.
NoThreads ==
    [pc |-> [t \in Threads |-> "idle"], exc |-> [t \in Threads |-> Exc("", "")], creates |-> 0]

\* No request is in progress.
NoFind ==
    /\ gw = NoGw
    /\ thr = NoThreads
    /\ job = NoJob
    /\ args = NoArgs
    /\ matches = <<>>
    /\ loop = Locals("idle")
    /\ rank = RankLocals("idle")

Init ==
    /\ NoFind
    /\ queue = <<>>
    /\ body = [m \in Msgs |-> Unpublished]
    /\ unacked = [c \in Consumers |-> 0]
    /\ connUp = [c \in Consumers |-> FALSE]
    /\ cons = [c \in Consumers |-> Fresh("connect")]
    /\ store = EmptyStore
    /\ index \in {[exists |-> FALSE, dim |-> 0],
                  [exists |-> TRUE, dim |-> REQUIRED_DIMENSION],
                  [exists |-> TRUE, dim |-> 1024]}
    /\ handle = [c \in Consumers |-> FALSE]
    /\ ackIssued = {}
    /\ firstIds = [cv \in CvIds |-> NotYet]
    /\ again = [cv \in CvIds |-> FALSE]

StartsWith(s, prefix) == Len(s) >= Len(prefix) /\ SubSeq(s, 1, Len(prefix)) = prefix

\* The ids of the records stored for a cv_id.
IdsOf(cv, st) == {id \in DOMAIN st : StartsWith(id, cv \o "_")}

(***************************************************************************)
(* The broker                                                              *)
(***************************************************************************)
\* The external publisher sends cv.created (or anything else) to the queue.
Publish(m, b) ==
    /\ body[m].t = "unpublished"
    /\ IF m = 1 THEN TRUE ELSE body[m - 1].t # "unpublished"
    /\ body' = [body EXCEPT ![m] = b]
    /\ queue' = Append(queue, m)
    /\ UNCHANGED <<unacked, connUp, cons, store, index, handle, ackIssued, firstIds, again, findVars, rank, job, gw, thr>>

\* Line 91: basic_qos(prefetch_count=1).
prefetch_count == 1

\* The deliveries the channel of c holds unsettled.
Unsettled(c) == IF unacked[c] = 0 THEN 0 ELSE 1

DequeuedKeep(q) == q

\* A message delivered leaves the ready messages (basic_consume without
\* auto_ack: it stays with the channel until settled).
Dequeued(q) == Tail(q)

\* basic_qos(prefetch_count=1): a channel with an unsettled delivery gets no other.
Deliver(c) ==
    /\ cons[c].pc = "wait"
    /\ connUp[c]
    /\ Unsettled(c) < prefetch_count
    /\ queue # <<>>
    /\ unacked' = [unacked EXCEPT ![c] = Head(queue)]
    /\ queue' = Dequeued(queue)
    /\ cons' = [cons EXCEPT ![c] = [Fresh("callback") EXCEPT !.msg = Head(queue)]]
    /\ UNCHANGED <<body, connUp, store, index, handle, ackIssued, firstIds, again, findVars, rank, job, gw, thr>>

ConnDropUnnoticed(c) ==
    /\ connUp[c]
    /\ connUp' = [connUp EXCEPT ![c] = FALSE]
    /\ unacked' = [unacked EXCEPT ![c] = 0]
    /\ queue' = IF unacked[c] # 0 THEN <<unacked[c]>> \o queue ELSE queue
    /\ UNCHANGED <<body, cons, store, index, handle, ackIssued, firstIds, again, findVars, rank, job, gw, thr>>

\* The connection is lost; the broker requeues what the channel held.  A
\* process blocked in start_consuming gets the error at once and falls into the
\* except clause of start_consumer; a process inside callback notices at its
\* next channel operation.
ConnDrop(c) ==
    /\ connUp[c]
    /\ connUp' = [connUp EXCEPT ![c] = FALSE]
    /\ unacked' = [unacked EXCEPT ![c] = 0]
    /\ queue' = IF unacked[c] # 0 THEN <<unacked[c]>> \o queue ELSE queue
    /\ cons' = IF cons[c].pc = "wait" THEN [cons EXCEPT ![c] = Fresh("backoff")] ELSE cons
    /\ UNCHANGED <<body, store, index, handle, ackIssued, firstIds, again, findVars, rank, job, gw, thr>>

\* What a basic_ack / basic_nack does at the broker when the channel is open.
BrokerSettle(c, call) ==
    IF connUp[c] /\ unacked[c] # 0
    THEN /\ unacked' = [unacked EXCEPT ![c] = 0]
         /\ queue' = IF call.op = "nack" /\ call.requeue
                     THEN <<unacked[c]>> \o queue ELSE queue
    ELSE UNCHANGED <<queue, unacked>>

(***************************************************************************)
(* mq_consumer.py: callback                                                *)
(***************************************************************************)
\* An exception e raised inside the try block with locals run: the matching
\* except clause issues basic_nack; on a closed channel basic_nack raises in
\* turn and that exception leaves the callback.
Except(c, run, e, fault) ==
    IF Caught(e)
    THEN /\ cons' = [cons EXCEPT ![c] =
                       [run EXCEPT !.pc = "returned", !.fault = fault, !.exc = e,
                                   !.calls = Append(run.calls, Nack(NackRequeue(e))),
                                   !.chanErr = run.chanErr \/ ~connUp[c],
                                   !.escaped = ~connUp[c]]]
         /\ BrokerSettle(c, Nack(NackRequeue(e)))
    ELSE /\ cons' = [cons EXCEPT ![c] =
                       [run EXCEPT !.pc = "returned", !.fault = fault, !.exc = e,
                                   !.escaped = TRUE]]
         /\ UNCHANGED <<queue, unacked>>

\* Line 24: if not cv_id
MissingCvIdNoneOnly(cv_id) == cv_id.t = "null"
MissingCvId(cv_id) == ~Truthy(cv_id)

\* Lines 21-27: json.loads, data.get("cv_id"), the missing-cv_id nack.
Parse(c) ==
    LET run == cons[c]
        data == body[run.msg]
        cv_id == Get(data, "cv_id", JNull)
    IN  /\ run.pc = "callback"
        /\ IF data.t = "invalid"
           THEN Except(c, run, Exc("JSONDecodeError",
                                   "Expecting value: line 1 column 1 (char 0)"),
                       "parse_invalid")
           ELSE IF data.t # "dict"
           THEN Except(c, run, NoGet(data), "parse_nonobject")
           ELSE IF MissingCvId(cv_id)
           THEN IF connUp[c]
                THEN /\ cons' = [cons EXCEPT ![c] =
                                   [run EXCEPT !.pc = "returned", !.fault = "no_cv_id",
                                               !.calls = <<Nack(FALSE)>>]]
                     /\ BrokerSettle(c, Nack(FALSE))
                ELSE Except(c, [run EXCEPT !.calls = <<Nack(FALSE)>>, !.chanErr = TRUE],
                            ChannelClosed, "no_cv_id")
           ELSE /\ cons' = [cons EXCEPT ![c] =
                              [run EXCEPT !.pc = "fetch", !.cv_id = Format(cv_id),
                                          !.invoked = TRUE]]
                /\ UNCHANGED <<queue, unacked>>
        /\ UNCHANGED <<body, connUp, store, index, handle, ackIssued, firstIds, again, findVars, rank, job, gw, thr>>

(***************************************************************************)
(* service.py: process_cv_for_embedding, step by step                      *)
(***************************************************************************)
\* What requests.get(.../internal/get_cv/{cv_id}, timeout=10) can end in.
FetchStatuses(cv_id) == (IF cv_id \in DOMAIN DocStore THEN {200} ELSE {404}) \cup {503}

FetchUrl(cv_id) == "/internal/get_cv/" \o cv_id

NetworkError(cv_id) ==
    Exc("ConnectionError",
        "Max retries exceeded with url: "
        \o FetchUrl(cv_id))

\* Lines 31-77: fetch, status check, chunking; the function returns early
\* when there is nothing to embed.
Fetch(c) ==
    LET run == cons[c]
    IN  /\ run.pc = "fetch"
        /\ \/ \E code \in FetchStatuses(run.cv_id) :
                IF code # 200
                THEN Except(c, run, Exc("Exception", "Failed to fetch CV: " \o ToStr(code)),
                            IF code < 500 THEN "fetch_4xx" ELSE "fetch_5xx")
                ELSE LET r == ChunkCv(DocStore[run.cv_id], run.cv_id)
                     IN  IF ~r.ok THEN Except(c, run, r.exc, "chunk")
                         ELSE /\ cons' = [cons EXCEPT ![c] =
                                  [run EXCEPT !.pc = IF r.chunks = <<>> THEN "ack" ELSE "embed",
                                              !.all_chunks = r.chunks]]
                              /\ UNCHANGED <<queue, unacked>>
           \/ Except(c, run, NetworkError(run.cv_id), "fetch_network")
        /\ UNCHANGED <<body, connUp, store, index, handle, ackIssued, firstIds, again, findVars, rank, job, gw, thr>>

\* What model.encode can raise, with the kind of failure it is.
EmbedErrors ==
    { [exc |-> Exc("MemoryError", ""), fault |-> "embed_resource"],
      [exc |-> Exc("OSError", "[WinError 1455] The paging file is too small for this operation to complete"),
       fault |-> "embed_resource"],
      [exc |-> Exc("OSError", "[Errno 12] Cannot allocate memory"), fault |-> "embed_resource"],
      [exc |-> Exc("RuntimeError", "CUDA out of memory. Tried to allocate 20.00 MiB"),
       fault |-> "embed_resource"],
      [exc |-> Exc("RuntimeError", "The size of tensor a must match the size of tensor b"),
       fault |-> "embed_other"] }

\* Line 80: embed_chunks(all_chunks).
Embed(c) ==
    LET run == cons[c]
    IN  /\ run.pc = "embed"
        /\ \/ /\ cons' = [cons EXCEPT ![c] = [run EXCEPT !.pc = "upsert"]]
              /\ UNCHANGED <<queue, unacked>>
           \/ \E x \in EmbedErrors : Except(c, run, x.exc, x.fault)
        /\ UNCHANGED <<body, connUp, store, index, handle, ackIssued, firstIds, again, findVars, rank, job, gw, thr>>

get_indexAlwaysRecreate(has, idx, st) ==
    IF has \/ (idx.exists /\ idx.dim = REQUIRED_DIMENSION)
    THEN [ok |-> TRUE, exc |-> Exc("", ""), index |-> idx, store |-> st]
    ELSE [ok |-> TRUE, exc |-> Exc("", ""),
          index |-> [exists |-> TRUE, dim |-> REQUIRED_DIMENSION], store |-> EmptyStore]

\* pinecone_client.get_index as one call: the result, and index and store after it.
get_index(has, idx, st) ==
    IF has THEN [ok |-> TRUE, exc |-> Exc("", ""), index |-> idx, store |-> st]
    ELSE IF ~idx.exists
    THEN [ok |-> TRUE, exc |-> Exc("", ""),
          index |-> [exists |-> TRUE, dim |-> REQUIRED_DIMENSION], store |-> st]
    ELSE IF idx.dim = REQUIRED_DIMENSION
    THEN [ok |-> TRUE, exc |-> Exc("", ""), index |-> idx, store |-> st]
    ELSE IF Cardinality(DOMAIN st) = 0
    THEN [ok |-> TRUE, exc |-> Exc("", ""),
          index |-> [exists |-> TRUE, dim |-> REQUIRED_DIMENSION], store |-> EmptyStore]
    ELSE [ok |-> FALSE,
          exc |-> Exc("ValueError",
                      "Index 'tailorcv-cv-chunks' has dimension " \o ToStr(idx.dim)
                      \o " but we need " \o ToStr(REQUIRED_DIMENSION) \o ". Index has "
                      \o ToStr(Cardinality(DOMAIN st))
                      \o " records. Please delete it manually in Pinecone dashboard."),
          index |-> idx, store |-> st]

\* What index.upsert can raise.
UpsertErrors ==
    { Exc("PineconeApiException", "(503) Reason: Service Unavailable"),
      Exc("PineconeApiException",
          "(503) Reason: Service Unavailable {'content-length': '1455'}"),
      Exc("PineconeApiException", "(500) Reason: Internal Server Error: Out Of Memory") }

\* Line 83: upsert_chunks_to_pinecone; one step per index.upsert call, the
\* first one preceded by get_index and the preparation of the vectors.
Upsert(c) ==
    LET run == cons[c]
        g == IF run.sent = 0 THEN get_index(handle[c], index, store)
             ELSE get_index(TRUE, index, store)
        vectors == Vectors(run.all_chunks)
        batch == BatchAt(vectors, run.sent)
        after == Upserted(g.store, batch)
        finished == run.sent + Len(batch) >= Len(vectors)
    IN  /\ run.pc = "upsert"
        /\ IF ~g.ok
           THEN /\ Except(c, run, g.exc, "index_dimension")
                /\ UNCHANGED <<store, index, handle, firstIds, again>>
           ELSE /\ index' = g.index
                /\ handle' = [handle EXCEPT ![c] = TRUE]
                /\ \/ /\ store' = after
                      /\ cons' = [cons EXCEPT ![c] =
                                    [run EXCEPT !.sent = run.sent + Len(batch),
                                                !.pc = IF finished THEN "ack" ELSE "upsert"]]
                      /\ firstIds' = IF finished /\ firstIds[run.cv_id] = NotYet
                                     THEN [firstIds EXCEPT ![run.cv_id] = IdsOf(run.cv_id, after)]
                                     ELSE firstIds
                      /\ again' = IF finished /\ firstIds[run.cv_id] # NotYet
                                  THEN [again EXCEPT ![run.cv_id] = TRUE]
                                  ELSE again
                      /\ UNCHANGED <<queue, unacked>>
                   \/ /\ store' = g.store
                      /\ \E e \in UpsertErrors : Except(c, run, e, "upsert_transient")
                      /\ UNCHANGED <<firstIds, again>>
        /\ UNCHANGED <<body, connUp, ackIssued, findVars, rank, job, gw, thr>>

\* Line 35: basic_ack, inside the try block.
AckStep(c) ==
    LET run == cons[c]
    IN  /\ run.pc = "ack"
        /\ ackIssued' = ackIssued \cup {run.msg}
        /\ IF connUp[c]
           THEN /\ cons' = [cons EXCEPT ![c] = [run EXCEPT !.pc = "returned", !.calls = <<Ack>>]]
                /\ BrokerSettle(c, Ack)
           ELSE Except(c, [run EXCEPT !.calls = <<Ack>>, !.chanErr = TRUE],
                       ChannelClosed, "ack_channel")
        /\ UNCHANGED <<body, connUp, store, index, handle, firstIds, again, findVars, rank, job, gw, thr>>

(***************************************************************************)
(* mq_consumer.py: start_consumer                                          *)
(***************************************************************************)
ReturnKeepsWaiting(c) ==
    /\ cons[c].pc = "returned"
    /\ cons' = [cons EXCEPT ![c] = Fresh("wait")]
    /\ UNCHANGED <<queue, body, unacked, connUp, store, index, handle, ackIssued, firstIds, again, findVars, rank, job, gw, thr>>

\* The callback is over: start_consuming goes on waiting, or hands the
\* exception that left the callback to the except clause of start_consumer;
\* on a connection lost in the meantime it raises as soon as it is back.
Return(c) ==
    /\ cons[c].pc = "returned"
    /\ cons' = [cons EXCEPT ![c] =
                  Fresh(IF cons[c].escaped \/ ~connUp[c] THEN "backoff" ELSE "wait")]
    /\ UNCHANGED <<queue, body, unacked, connUp, store, index, handle, ackIssued, firstIds, again, findVars, rank, job, gw, thr>>

\* time.sleep(5), then the next turn of the while loop.
Backoff(c) ==
    /\ cons[c].pc = "backoff"
    /\ cons' = [cons EXCEPT ![c] = Fresh("connect")]
    /\ UNCHANGED <<queue, body, unacked, connUp, store, index, handle, ackIssued, firstIds, again, findVars, rank, job, gw, thr>>

\* Lines 79-96: BlockingConnection, channel, queue_declare, basic_qos,
\* basic_consume; any of them may raise.  A connection the process abandoned
\* while it was still open is closed by then and its delivery requeued.
Connect(c) ==
    /\ cons[c].pc = "connect"
    /\ \/ /\ connUp' = [connUp EXCEPT ![c] = TRUE]
          /\ cons' = [cons EXCEPT ![c] = Fresh("wait")]
       \/ /\ connUp' = [connUp EXCEPT ![c] = FALSE]
          /\ cons' = [cons EXCEPT ![c] = Fresh("backoff")]
    /\ unacked' = [unacked EXCEPT ![c] = 0]
    /\ queue' = IF unacked[c] # 0 THEN <<unacked[c]>> \o queue ELSE queue
    /\ UNCHANGED <<body, store, index, handle, ackIssued, firstIds, again, findVars, rank, job, gw, thr>>

\* The steps of indexer process c.
Indexer(c) ==
    \/ Deliver(c)
    \/ ConnDrop(c)
    \/ Parse(c)
    \/ Fetch(c)
    \/ Embed(c)
    \/ Upsert(c)
    \/ AckStep(c)
    \/ Return(c)
    \/ Backoff(c)
    \/ Connect(c)

Next ==
    \/ \E m \in Msgs, b \in Bodies : Publish(m, b)
    \/ \E c \in Solo : Indexer(c)

Spec == Init /\ [][Next]_vars

\* An index an earlier deployment left behind, with one record.
OldStore ==
    [id \in {"0ld_summary_0"} |->
       [values |-> <<"bge-large", "S">>,
        metadata |-> << <<"cv_id", "0ld">>, <<"section", "summary">>, <<"text", "S">> >>]]

\* The service starts against whatever index the account holds: none, one of
\* the required dimension, or one of another dimension; an index that exists
\* may hold records.
InitBoot ==
    /\ NoFind
    /\ queue = <<>>
    /\ body = [m \in Msgs |-> Unpublished]
    /\ unacked = [c \in Consumers |-> 0]
    /\ connUp = [c \in Consumers |-> FALSE]
    /\ cons = [c \in Consumers |-> Fresh("connect")]
    /\ index \in {[exists |-> FALSE, dim |-> 0],
                  [exists |-> TRUE, dim |-> REQUIRED_DIMENSION],
                  [exists |-> TRUE, dim |-> 1024]}
    /\ store \in IF index.exists THEN {EmptyStore, OldStore} ELSE {EmptyStore}
    /\ handle = [c \in Consumers |-> FALSE]
    /\ ackIssued = {}
    /\ firstIds = [cv \in CvIds |-> NotYet]
    /\ again = [cv \in CvIds |-> FALSE]

SpecBoot == InitBoot /\ [][Next]_vars

TypeOK ==
    \A c \in Consumers : cons[c].pc \in
        {"connect", "backoff", "wait", "callback", "fetch", "embed", "upsert", "ack", "returned"}

(***************************************************************************)
(* Claims about the consumer                                               *)
(***************************************************************************)
\* The callback of process c is over and its locals are still in place.
Settled(c) == cons[c].pc = "returned"

\* The message of a delivery is back among the ready messages.
Requeued(m) == \E i \in 1..Len(queue) : queue[i] = m

EventCv(m) == Get(body[m], "cv_id", JNull).v

\* C1: a cv.created whose document fetch is answered 404 (any 4xx) is settled
\* with basic_nack(requeue=False): the message leaves the queue and no vector
\* is written for its cv_id.
C1_NotFoundIsDropped ==
    \A c \in Consumers :
        Settled(c) /\ cons[c].fault = "fetch_4xx" =>
            /\ cons[c].calls = <<Nack(FALSE)>>
            /\ ~cons[c].chanErr => ~Requeued(cons[c].msg)
            /\ IdsOf(cons[c].cv_id, store) = {}

\* The errors the claim C2 calls resource exhaustion: a MemoryError, a
\* paging-file / error-1455 failure, a text that reports a memory problem.
ResourceExhaustion(e) ==
    \/ e.cls = "MemoryError"
    \/ Contains("paging file", Lower(e.text))
    \/ Contains("1455", e.text)
    \/ Contains("memory", Lower(e.text))

\* C2: whatever its class, a resource-exhaustion error raised while processing
\* a message ends in basic_nack(requeue=False); the message is never requeued.
C2_ResourceErrorsNotRequeued ==
    \A c \in Consumers :
        Settled(c) /\ cons[c].fault \notin {"none", "no_cv_id", "ack_channel"}
                   /\ ResourceExhaustion(cons[c].exc) =>
            /\ cons[c].calls = <<Nack(FALSE)>>
            /\ ~cons[c].chanErr => ~Requeued(cons[c].msg)

\* The chunks of the message of an acknowledged delivery.
DocChunks == [cv \in DOMAIN DocStore |-> ChunkCv(DocStore[cv], cv).chunks]

ChunksOfMsg(m) == DocChunks[EventCv(m)]

InStore(chunk) ==
    \E id \in DOMAIN store :
        /\ StartsWith(id, chunk.cv_id \o "_" \o chunk.section \o "_")
        /\ store[id].values = Embedding(chunk.text)

\* C3: basic_ack is issued only after fetch, chunk, embed and upsert have all
\* completed in this order: every chunk of an acked message is in the store
\* (or it had none), and no delivery on which fetch, chunking, embedding or an
\* upsert batch raised is acked.
C3_AckOnlyAfterUpsert ==
    /\ \A m \in ackIssued :
          \A k \in 1..Len(ChunksOfMsg(m)) : InStore(ChunksOfMsg(m)[k])
    /\ \A c \in Consumers :
          /\ cons[c].pc = "ack" =>
                cons[c].invoked /\ cons[c].sent = Len(cons[c].all_chunks)
          /\ Settled(c) /\ (\E i \in 1..Len(cons[c].calls) : cons[c].calls[i] = Ack) =>
                cons[c].fault \in {"none", "ack_channel"}

C3_Witness ==
    \E m \in ackIssued : Len(ChunksOfMsg(m)) > 1 /\ ~Requeued(m)

\* C4: processing the same cv.created again, the document being the same,
\* leaves the store with exactly the record ids it had after the first
\* processing: records are overwritten, none is added.
C4_ReprocessingKeepsIds ==
    \A cv \in CvIds : firstIds[cv] # NotYet => IdsOf(cv, store) = firstIds[cv]

C4_Witness ==
    \E cv \in CvIds : again[cv] /\ firstIds[cv] # NotYet /\ Cardinality(firstIds[cv]) > 1

\* A payload without cv_id: the key is absent, null or the empty string.
NoCvId(b) ==
    /\ b.t = "dict"
    /\ \/ \A i \in 1..Len(b.v) : b.v[i][1] # "cv_id"
       \/ \E i \in 1..Len(b.v) : b.v[i][1] = "cv_id" /\ b.v[i][2].t = "null"
       \/ \E i \in 1..Len(b.v) : b.v[i][1] = "cv_id" /\ b.v[i][2].t = "str" /\ b.v[i][2].v = ""

\* C5: a message whose payload has no cv_id is nacked with requeue=False and
\* process_cv_for_embedding is never invoked for it: no fetch, no embedding,
\* no upsert.
C5_MissingCvIdIsPoison ==
    \A c \in Consumers :
        /\ cons[c].msg # 0 /\ NoCvId(body[cons[c].msg]) =>
              /\ ~cons[c].invoked
              /\ cons[c].pc \in {"callback", "returned"}
              /\ cons[c].all_chunks = <<>> /\ cons[c].sent = 0
        /\ Settled(c) /\ NoCvId(body[cons[c].msg]) =>
              /\ cons[c].calls[1] = Nack(FALSE)
              /\ ~cons[c].chanErr => cons[c].calls = <<Nack(FALSE)>> /\ ~Requeued(cons[c].msg)

C5_Witness ==
    \E c \in Consumers :
        /\ Settled(c) /\ ~cons[c].chanErr
        /\ body[cons[c].msg] = JDict(<<>>)
        /\ \E m \in Msgs : m # cons[c].msg /\ body[m].t = "dict" /\ NoCvId(body[m])
                             /\ body[m] # JDict(<<>>) /\ ~Requeued(m)

Transient == {"fetch_5xx", "fetch_network", "upsert_transient"}

C7_ExactlyOneOutcome ==
    \A c \in Consumers :
        Settled(c) =>
            /\ Len(cons[c].calls) = 1
            /\ cons[c].escaped => cons[c].chanErr

\* C7 as amended: on a channel that stays open until the callback settles the
\* delivery, exactly one of basic_ack / basic_nack is issued and nothing
\* leaves the callback; an exception of parsing or processing never leaves
\* it.  When basic_ack or basic_nack itself raises (connection lost), a
\* failed basic_ack or missing-cv_id nack is followed by a
\* basic_nack(requeue=True) for the same tag, whose exception leaves the
\* callback.
C7_OneOutcomeOnOpenChannel ==
    \A c \in Consumers :
        Settled(c) =>
            /\ ~cons[c].chanErr => Len(cons[c].calls) = 1 /\ ~cons[c].escaped
            /\ cons[c].chanErr =>
                  /\ cons[c].escaped
                  /\ Len(cons[c].calls) \in {1, 2}
                  /\ cons[c].calls[Len(cons[c].calls)].op = "nack"
                  /\ Len(cons[c].calls) = 2 => cons[c].calls[2] = Nack(TRUE)

C7_Witness ==
    \E c \in Consumers :
        /\ Settled(c) /\ ~cons[c].chanErr
        /\ cons[c].fault = "parse_invalid" /\ cons[c].calls = <<Nack(TRUE)>>

(***************************************************************************)
(* service.py: find_similar_chunks                                         *)
(***************************************************************************)
MaxMatches == 3
MaxPerCv == 2
MaxRet == 2

\* Scores are counted in 1/10000: 0.8004 is 8004.
Match(id, score, pairs) == [id |-> id, score |-> score, metadata |-> JDict(pairs)]

Meta(cv_id, section, text) ==
    << <<"cv_id", JStr(cv_id)>>, <<"section", JStr(section)>>, <<"text", JStr(text)>> >>

\* The records a query can find in the store.
Pool ==
    << Match("A_experience_0", 9200, Meta("A", "experience", "Led X")),
       Match("B_experience_0", 9000, Meta("B", "experience", " led x ")),
       Match("A_summary_2", 9200, Meta("A", "summary", "S")),
       Match("B_summary_1", 8004, Meta("B", "summary", " S")),
       Match("x_summary_0", 7996, << <<"section", JStr("summary")>>, <<"text", JStr("s")>> >>),
       Match("A_skills_3", 8004, Meta("A", "skills", "Go")),
       Match("x_skills_1", 8004, << <<"section", JStr("skills")>>, <<"text", JStr("Rust")>> >>),
       Match("B_projects_2", 7996,
             Meta("B", "projects", "P") \o << <<"raw_text", JStr(" P - built it ")>> >>),
       Match("A_skills_4", 7996, Meta("A", "skills", " ")),
       Match("A_projects_5", 6000, Meta("A", "projects", "Q")),
       Match("B_projects_3", 7500, Meta("B", "projects", "R")) >>

\* index.query answers with distinct records in the order of their scores,
\* the best first, at most top_k of them.
MatchLists ==
    LET picks == UNION {[1..n -> 1..Len(Pool)] : n \in 0..MaxMatches}
        ordered(f) == \A j, k \in DOMAIN f :
                         j < k => f[j] # f[k] /\ Pool[f[j]].score >= Pool[f[k]].score
    IN  {[k \in DOMAIN f |-> Pool[f[k]]] : f \in {g \in picks : ordered(g)}}

JdTexts == {" ", "go developer"}
MinScores == {7500, 12000}

ArgsSet ==
    [jd_text : JdTexts, min_score : MinScores,
     max_returned_chunks : 0..MaxRet, per_cv_limit : 0..MaxPerCv]

bullet_sections == {"experience", "projects"}

\* Line 142: (meta.get("raw_text") or meta.get("text") or "").strip()
MatchTextUnstripped(meta) ==
    LET raw_text == Get(meta, "raw_text", JNull)
        text == Get(meta, "text", JNull)
    IN  IF Truthy(raw_text) THEN raw_text.v ELSE IF Truthy(text) THEN text.v ELSE ""

MatchText(meta) ==
    LET raw_text == Get(meta, "raw_text", JNull)
        text == Get(meta, "text", JNull)
    IN  Strip(IF Truthy(raw_text) THEN raw_text.v ELSE IF Truthy(text) THEN text.v ELSE "")

\* Line 150: text.lower().strip()
NormTextAsIs(text) == text

NormTextStripOnly(text) == Strip(text)

NormText(text) == Strip(Lower(text))

\* Line 169: round(score, 3); no score of the pool lies halfway.
Round3(score) == ((score + 5) \div 10) * 10

\* per_cv_counts is a defaultdict(int).
Count(per_cv_counts, cv_id) ==
    IF cv_id \in DOMAIN per_cv_counts THEN per_cv_counts[cv_id] ELSE 0

IncrNever(per_cv_counts, cv_id) == per_cv_counts

\* per_cv_counts[cv_id] += 1
Incr(per_cv_counts, cv_id) ==
    [k \in (DOMAIN per_cv_counts) \cup {cv_id} |->
       IF k = cv_id THEN Count(per_cv_counts, cv_id) + 1 ELSE per_cv_counts[k]]

\* Lines 134-196: the body of the loop for one match, up to the append or the
\* continue; accepted tells which of the two ended it.
LoopBody(l, match, a) ==
    LET score == match.score
        meta == match.metadata
        section == Get(meta, "section", JStr("")).v
        cv_id == Get(meta, "cv_id", JStr("")).v
        text == MatchText(meta)
        norm_text == NormText(text)
        chunk == [text |-> text, section |-> section, cv_id |-> cv_id, score |-> score]
        skip == [accepted |-> FALSE, l |-> l]
        bullet_key == <<section, norm_text>>
        summary_key == <<Round3(score), norm_text>>
    IN  IF score < a.min_score THEN skip
        ELSE IF text = "" THEN skip
        ELSE IF cv_id # "" /\ Count(l.per_cv_counts, cv_id) >= a.per_cv_limit THEN skip
        ELSE IF section \in bullet_sections
        THEN IF bullet_key \in l.seen_bullet_keys THEN skip
             ELSE [accepted |-> TRUE,
                   l |-> [l EXCEPT !.seen_bullet_keys = @ \cup {bullet_key},
                                   !.bullet_chunks = Append(@, chunk),
                                   !.per_cv_counts = Incr(@, cv_id)]]
        ELSE IF section = "summary"
        THEN IF summary_key \in l.seen_summary_keys THEN skip
             ELSE [accepted |-> TRUE,
                   l |-> [l EXCEPT !.seen_summary_keys = @ \cup {summary_key},
                                   !.summary_chunks = Append(@, chunk),
                                   !.per_cv_counts = Incr(@, cv_id)]]
        ELSE IF bullet_key \in l.seen_bullet_keys THEN skip
             ELSE [accepted |-> TRUE,
                   l |-> [l EXCEPT !.seen_bullet_keys = @ \cup {bullet_key},
                                   !.bullet_chunks = Append(@, chunk),
                                   !.per_cv_counts = Incr(@, cv_id)]]

\* Lines 106 and 227: not jd_text or not jd_text.strip()
IsBlankEmptyOnly(jd_text) == jd_text = ""

IsBlank(jd_text) == jd_text = "" \/ Strip(jd_text) = ""

\* embedder.py, embed_text: a text that is empty or all whitespace raises
\* before the model is asked.
EmbedTextRaises(text) == text = "" \/ Strip(text) = ""

\* A request arrives.
Call ==
    /\ loop.pc = "idle" /\ rank.pc = "idle"
    /\ \E a \in ArgsSet : args' = a
    /\ loop' = Locals("validate")
    /\ UNCHANGED <<matches, indexerVars, rank, job, gw, thr>>

\* Lines 106-110: the checks of jd_text and min_score.
Validate ==
    /\ loop.pc = "validate"
    /\ loop' = IF IsBlank(args.jd_text)
               THEN [loop EXCEPT !.pc = "raised",
                                 !.exc = Exc("ValueError", "Job description text cannot be empty")]
               ELSE IF ~(0 <= args.min_score /\ args.min_score <= 10000)
               THEN [loop EXCEPT !.pc = "raised",
                                 !.exc = Exc("ValueError", "min_score must be between 0.0 and 1.0")]
               ELSE [loop EXCEPT !.pc = "query"]
    /\ UNCHANGED <<args, matches, indexerVars, rank, job, gw, thr>>

\* Lines 113-119: embed_text, query_similar.
Query ==
    /\ loop.pc = "query"
    /\ IF EmbedTextRaises(args.jd_text)
       THEN /\ loop' = [loop EXCEPT !.pc = "raised", !.calls = <<"embed_text">>,
                                     !.exc = Exc("ValueError", "Text cannot be empty")]
            /\ UNCHANGED matches
       ELSE /\ \E ms \in MatchLists : matches' = ms
            /\ loop' = [loop EXCEPT !.pc = "loop",
                                     !.calls = <<"embed_text", "query_similar">>]
    /\ UNCHANGED <<args, indexerVars, rank, job, gw, thr>>

\* Lines 133-200: one turn of the loop; the break follows an append only.
Iterate ==
    /\ loop.pc = "loop"
    /\ loop.i <= Len(matches)
    /\ LET r == LoopBody(loop, matches[loop.i], args)
           full == Len(r.l.bullet_chunks) + Len(r.l.summary_chunks) >= args.max_returned_chunks
       IN  loop' = IF r.accepted /\ full
                   THEN [r.l EXCEPT !.pc = "return"]
                   ELSE [r.l EXCEPT !.i = @ + 1]
    /\ UNCHANGED <<args, matches, indexerVars, rank, job, gw, thr>>

ResultSummariesFirst(bullet_chunks, summary_chunks) == summary_chunks \o bullet_chunks

\* Line 202: chunks = bullet_chunks + summary_chunks
Result(bullet_chunks, summary_chunks) == bullet_chunks \o summary_chunks

\* Lines 202-208: the end of the loop, by exhaustion or by break, and the return.
ReturnChunks ==
    /\ loop.pc \in {"loop", "return"}
    /\ loop.pc = "loop" => loop.i > Len(matches)
    /\ loop' = [loop EXCEPT !.pc = "done",
                            !.chunks = Result(loop.bullet_chunks, loop.summary_chunks)]
    /\ UNCHANGED <<args, matches, indexerVars, rank, job, gw, thr>>

(***************************************************************************)
(* service.py: search_top_k_cvs                                            *)
(***************************************************************************)
MaxRaw == 5
MaxTopK == 3

\* The records a ranking query can find: chunks of three resumes, a record
\* without cv_id and one with an empty cv_id; no two scores are equal.
RankPool ==
    << Match("x_skills_0", 9500, << <<"section", JStr("skills")>>, <<"text", JStr("Rust")>> >>),
       Match("A_experience_0", 9000, Meta("A", "experience", "Acme - Led X")),
       Match("_skills_0", 8500, Meta("", "skills", "Go")),
       Match("B_experience_0", 8000, Meta("B", "experience", "Bolt - Ran Y")),
       Match("A_summary_1", 7000, Meta("A", "summary", "S")),
       Match("C_experience_0", 6900, Meta("C", "experience", "Core - Did Z")),
       Match("C_skills_1", 6100, Meta("C", "skills", "Go")),
       Match("B_skills_1", 5000, Meta("B", "skills", "C")) >>

\* index.query(top_k=raw_top_k): the best records first, at most raw_top_k.
RankLists(raw_top_k) ==
    LET picks == {S \in SUBSET (1..Len(RankPool)) : Cardinality(S) <= raw_top_k}
        nth(S, n) == CHOOSE k \in S : Cardinality({j \in S : j < k}) = n - 1
    IN  {[n \in 1..Cardinality(S) |-> RankPool[nth(S, n)]] : S \in picks}

\* scores_by_cv[cv_id] += score on a defaultdict(float): a new key goes last.
AddScoreLatest(scores_by_cv, cv_id, score) == DictSet(scores_by_cv, cv_id, score)

AddScore(scores_by_cv, cv_id, score) ==
    IF \E n \in 1..Len(scores_by_cv) : scores_by_cv[n][1] = cv_id
    THEN [n \in 1..Len(scores_by_cv) |->
            IF scores_by_cv[n][1] = cv_id
            THEN <<cv_id, scores_by_cv[n][2] + score>> ELSE scores_by_cv[n]]
    ELSE Append(scores_by_cv, <<cv_id, score>>)

SortedAsInserted(items) == items

\* sorted(items, key=lambda x: x[1], reverse=True): stable, equal scores keep
\* their order.
RECURSIVE SortedByScore(_)
SortedByScore(items) ==
    IF items = <<>> THEN <<>>
    ELSE LET best == CHOOSE n \in 1..Len(items) :
                        /\ \A k \in 1..Len(items) : items[k][2] <= items[n][2]
                        /\ \A k \in 1..(n - 1) : items[k][2] < items[n][2]
         IN  <<items[best]>>
             \o SortedByScore(SubSeq(items, 1, best - 1) \o SubSeq(items, best + 1, Len(items)))

\* s[:n] for n >= 0
Take(s, n) == SubSeq(s, 1, IF n < Len(s) THEN n ELSE Len(s))

\* A ranking request arrives at the route /internal/search_top_k_cvs.
RankCall ==
    /\ loop.pc = "idle" /\ rank.pc = "idle"
    /\ \E jd \in JdTexts, k \in 0..MaxTopK, raw \in 1..MaxRaw :
          rank' = [RankLocals("validate") EXCEPT !.jd_text = jd, !.top_k = k, !.raw_top_k = raw]
    /\ UNCHANGED <<indexerVars, findVars, job, gw, thr>>

\* Lines 227-228: the check of jd_text.
RankValidate ==
    /\ rank.pc = "validate"
    /\ rank' = IF IsBlank(rank.jd_text)
               THEN [rank EXCEPT !.pc = "raised",
                                 !.exc = Exc("ValueError", "Job description text cannot be empty")]
               ELSE [rank EXCEPT !.pc = "query"]
    /\ UNCHANGED <<indexerVars, findVars, job, gw, thr>>

\* Lines 230-236: embed_text, query_similar.
RankQuery ==
    /\ rank.pc = "query"
    /\ IF EmbedTextRaises(rank.jd_text)
       THEN rank' = [rank EXCEPT !.pc = "raised", !.calls = <<"embed_text">>,
                                 !.exc = Exc("ValueError", "Text cannot be empty")]
       ELSE \E ms \in RankLists(rank.raw_top_k) :
               rank' = [rank EXCEPT !.pc = "aggregate", !.matches = ms,
                                    !.calls = <<"embed_text", "query_similar">>]
    /\ UNCHANGED <<indexerVars, findVars, job, gw, thr>>

\* Lines 239-245: one turn of the aggregation loop.
Aggregate ==
    /\ rank.pc = "aggregate"
    /\ rank.i <= Len(rank.matches)
    /\ LET match == rank.matches[rank.i]
           cv_id == Get(match.metadata, "cv_id", JNull)
       IN  rank' = IF ~Truthy(cv_id) THEN [rank EXCEPT !.i = @ + 1]
                   ELSE [rank EXCEPT !.i = @ + 1,
                                     !.scores_by_cv = AddScore(@, cv_id.v, match.score)]
    /\ UNCHANGED <<indexerVars, findVars, job, gw, thr>>

\* Lines 247-256: sort, cut to top_k, build the result.
RankReturn ==
    /\ rank.pc = "aggregate"
    /\ rank.i > Len(rank.matches)
    /\ LET sorted_items == Take(SortedByScore(rank.scores_by_cv), rank.top_k)
       IN  rank' = [rank EXCEPT !.pc = "done",
                                !.result = [n \in 1..Len(sorted_items) |->
                                              [cv_id |-> sorted_items[n][1],
                                               score |-> sorted_items[n][2]]]]
    /\ UNCHANGED <<indexerVars, findVars, job, gw, thr>>

(***************************************************************************)
(* api.py: the routes /internal/similar_chunks and /internal/search_top_k_cvs *)
(***************************************************************************)
HTTP_500_INTERNAL_SERVER_ERROR == 500

\* Lines 86-90 and 108-112: except Exception -> HTTPException(500); there is
\* no other except clause in either route.
StatusOf(e) == IF IsInstance(e, "Exception") THEN HTTP_500_INTERNAL_SERVER_ERROR ELSE 0

\* Lines 80-94: the route passes top_k, which find_similar_chunks does not
\* take, so the call raises TypeError before the function body runs.
similar_chunks ==
    /\ loop.pc = "idle" /\ rank.pc = "idle"
    /\ \E jd \in JdTexts : args' = [NoArgs EXCEPT !.jd_text = jd]
    /\ LET e == Exc("TypeError",
                    "find_similar_chunks() got an unexpected keyword argument 'top_k'")
       IN  loop' = [Locals("responded") EXCEPT !.exc = e, !.status = StatusOf(e)]
    /\ UNCHANGED <<matches, indexerVars, rank, job, gw, thr>>

\* Lines 102-116: the route awaits the value of the synchronous function. An
\* error of the function is caught; a list returned is not awaitable, so the
\* await raises TypeError inside the same try. The body model admits top_k
\* from 1 on.
search_top_k_cvs ==
    /\ rank.pc \in {"raised", "done"}
    /\ rank.top_k >= 1
    /\ LET e == IF rank.pc = "raised" THEN rank.exc
                ELSE Exc("TypeError", "object list can't be used in 'await' expression")
       IN  rank' = [rank EXCEPT !.pc = "responded", !.exc = e, !.status = StatusOf(e)]
    /\ UNCHANGED <<indexerVars, findVars, job, gw, thr>>

InitFind ==
    /\ Init
    /\ index.exists /\ index.dim = REQUIRED_DIMENSION

NextFind ==
    \/ Call
    \/ Validate
    \/ Query
    \/ Iterate
    \/ ReturnChunks
    \/ RankCall
    \/ RankValidate
    \/ RankQuery
    \/ Aggregate
    \/ RankReturn
    \/ similar_chunks
    \/ search_top_k_cvs

SpecFind == InitFind /\ [][NextFind]_vars

(***************************************************************************)
(* Claims about find_similar_chunks                                        *)
(***************************************************************************)
\* The call has returned its list.
Done == loop.pc = "done"

\* A match the loop looked at before it ended.
Examined(k) == k \in 1..Len(matches) /\ (k < loop.i \/ (loop.pc = "done" /\ k <= loop.i))

MetaCv(k) == Get(matches[k].metadata, "cv_id", JStr("")).v
MetaSection(k) == Get(matches[k].metadata, "section", JStr("")).v

\* C8: every chunk find_similar_chunks returns has score >= min_score and a
\* text that is not blank after trimming.
C8_ScoreAndTextOfResult ==
    Done => \A k \in 1..Len(loop.chunks) :
                /\ loop.chunks[k].score >= args.min_score
                /\ Strip(loop.chunks[k].text) # ""

\* A result with a chunk in it, from matches of which one was under the
\* threshold and another had a blank text.
C8_Witness ==
    /\ Done /\ Len(loop.chunks) > 0
    /\ \E k \in 1..Len(matches) : Examined(k) /\ matches[k].score < args.min_score
    /\ \E k \in 1..Len(matches) :
          /\ Examined(k) /\ matches[k].score >= args.min_score
          /\ Strip(Get(matches[k].metadata, "text", JStr("")).v) = ""

\* The bullet dedup key of a returned chunk: (section, lowercased trimmed text).
BulletKeyOf(chunk) == <<chunk.section, Strip(Lower(chunk.text))>>

\* C9 as stated: no two chunks of the result share the bullet dedup key,
\* whatever their section.
C9_NoSharedBulletKey ==
    Done => \A j, k \in 1..Len(loop.chunks) :
                j # k => BulletKeyOf(loop.chunks[j]) # BulletKeyOf(loop.chunks[k])

\* C9 as amended: two chunks of the result share the bullet dedup key only
\* when both are summaries whose scores differ after rounding to three
\* decimals; chunks of every other section never share it, and two summaries
\* never share (round(score, 3), lowercased trimmed text).
C9_SharedKeyOnlyAmongSummaries ==
    Done => \A j, k \in 1..Len(loop.chunks) :
                j # k /\ BulletKeyOf(loop.chunks[j]) = BulletKeyOf(loop.chunks[k]) =>
                    /\ loop.chunks[j].section = "summary"
                    /\ Round3(loop.chunks[j].score) # Round3(loop.chunks[k].score)

\* Two matches with the same bullet key, from different candidates, both over
\* the threshold and under their candidate's cap: one chunk is returned for
\* them, and the cap on the length did not end the loop.
C9_Witness ==
    /\ Done /\ args.per_cv_limit > 0
    /\ Len(loop.chunks) < args.max_returned_chunks
    /\ \E j, k \in 1..Len(matches) :
          /\ j < k /\ MetaSection(j) = "experience" /\ MetaSection(k) = "experience"
          /\ MetaCv(j) # MetaCv(k)
          /\ NormText(MatchText(matches[j].metadata)) = NormText(MatchText(matches[k].metadata))
          /\ Cardinality({n \in 1..Len(loop.chunks) : loop.chunks[n].section = "experience"}) = 1

\* How often a cv_id occurs in the result.
Occurrences(cv_id) == Cardinality({k \in 1..Len(loop.chunks) : loop.chunks[k].cv_id = cv_id})

\* C10 as stated: no value occurring as the cv_id of a returned chunk occurs
\* more than per_cv_limit times in the result.
C10_NoCvIdOverLimit ==
    Done => \A k \in 1..Len(loop.chunks) :
                Occurrences(loop.chunks[k].cv_id) <= args.per_cv_limit

\* C10 as amended: no non-empty cv_id occurs more than per_cv_limit times in
\* the result; chunks whose metadata has no cv_id (cv_id = "") are not capped.
C10_NoNamedCvIdOverLimit ==
    Done => \A k \in 1..Len(loop.chunks) :
                loop.chunks[k].cv_id # "" =>
                    Occurrences(loop.chunks[k].cv_id) <= args.per_cv_limit

\* A candidate with more acceptable matches than the cap allows: the result
\* has per_cv_limit chunks of it, and the cap on the length did not end the loop.
C10_Witness ==
    /\ Done /\ args.per_cv_limit > 0
    /\ Len(loop.chunks) < args.max_returned_chunks
    /\ Occurrences("A") = args.per_cv_limit
    /\ Cardinality({k \in 1..Len(matches) :
                       /\ MetaCv(k) = "A" /\ matches[k].score >= args.min_score
                       /\ MatchText(matches[k].metadata) # ""}) > args.per_cv_limit

\* The chunks accepted so far.
AcceptedCount == Len(loop.bullet_chunks) + Len(loop.summary_chunks)

\* C11: the result has at most max_returned_chunks chunks, and the walk over
\* the matches stops as soon as the accepted count reaches max_returned_chunks:
\* no match is looked at after the one whose acceptance filled the result, and
\* none at all when max_returned_chunks is 0.
C11_LengthWithinCap ==
    Done =>
        /\ Len(loop.chunks) <= args.max_returned_chunks
        /\ Len(loop.chunks) >= args.max_returned_chunks =>
              IF args.max_returned_chunks = 0
              THEN \A k \in 1..Len(matches) : ~Examined(k)
              ELSE loop.i <= Len(matches)

\* The chunk find_similar_chunks makes of match k.
ChunkOf(k) ==
    [text |-> MatchText(matches[k].metadata), section |-> MetaSection(k),
     cv_id |-> MetaCv(k), score |-> matches[k].score]

InResult(k) == \E n \in 1..Len(loop.chunks) : loop.chunks[n] = ChunkOf(k)

\* The text of match k up to case and surrounding whitespace.
TextUpToCase(k) == Strip(Lower(MatchText(matches[k].metadata)))

\* Matches j and k are the same bullet of two different resumes, both at or
\* over the threshold.
SameBullet(j, k) ==
    /\ MetaSection(j) \in {"experience", "projects"}
    /\ MetaSection(k) \in {"experience", "projects"}
    /\ TextUpToCase(j) # "" /\ TextUpToCase(j) = TextUpToCase(k)
    /\ MetaCv(j) # MetaCv(k)
    /\ matches[j].score >= args.min_score /\ matches[k].score >= args.min_score

\* C12 as stated: of two such matches the result holds exactly one, the
\* higher-scoring one, for any per_cv_limit and any other matches.
C12_HigherScoringDuplicateKept ==
    Done => \A j, k \in 1..Len(matches) :
                j < k /\ SameBullet(j, k) =>
                    /\ InResult(j) # InResult(k)
                    /\ matches[j].score > matches[k].score => InResult(j)

\* Match j comes to its turn with room left: it is the first match of its
\* section and text, fewer than per_cv_limit matches of its resume and fewer
\* than max_returned_chunks matches at all come before it.
FirstWithRoom(j) ==
    /\ \A i \in 1..(j - 1) :
          ~(MetaSection(i) = MetaSection(j) /\ TextUpToCase(i) = TextUpToCase(j))
    /\ Cardinality({i \in 1..(j - 1) : MetaCv(i) = MetaCv(j)}) < args.per_cv_limit
    /\ j - 1 < args.max_returned_chunks

\* C12 as amended: of two such matches of the same section the result never
\* holds both; it holds the first (higher-scoring) one and not the other when
\* the first comes to its turn with room left.  Otherwise the cap of a
\* resume or of the length can leave the result with the lower-scoring one or
\* with neither.
C12_DuplicateKeptWhenRoom ==
    Done => \A j, k \in 1..Len(matches) :
                j < k /\ SameBullet(j, k) /\ MetaSection(j) = MetaSection(k) =>
                    /\ ~(InResult(j) /\ InResult(k))
                    /\ FirstWithRoom(j) => InResult(j) /\ ~InResult(k)

\* The second of two such matches was looked at with its resume under its
\* cap and left out as a duplicate of the first, which is in the result.
C12_Witness ==
    /\ Done
    /\ \E j, k \in 1..Len(matches) :
          /\ j < k /\ SameBullet(j, k) /\ MetaSection(j) = MetaSection(k)
          /\ matches[j].score > matches[k].score
          /\ FirstWithRoom(j) /\ Examined(k)
          /\ Cardinality({i \in 1..(k - 1) : MetaCv(i) = MetaCv(k)}) < args.per_cv_limit
          /\ InResult(j) /\ ~InResult(k)

(***************************************************************************)
(* Claims about search_top_k_cvs                                           *)
(***************************************************************************)
RankDone == rank.pc = "done"

\* Match k of the ranking query bears cv_id cv in its metadata.
Bears(k, cv) ==
    LET v == Get(rank.matches[k].metadata, "cv_id", JNull)
    IN  v.t = "str" /\ v.v = cv

RECURSIVE SumFrom(_, _)
\* The sum of match.score over the matches from k on that bear cv.
SumFrom(k, cv) ==
    IF k > Len(rank.matches) THEN 0
    ELSE (IF Bears(k, cv) THEN rank.matches[k].score ELSE 0) + SumFrom(k + 1, cv)

\* The cv_ids of the result.
Returned_cv_ids == {rank.result[n].cv_id : n \in 1..Len(rank.result)}

\* The non-empty cv_ids the matches bear.
BorneCvIds ==
    {cv \in {Get(rank.matches[k].metadata, "cv_id", JStr("")).v : k \in 1..Len(rank.matches)} :
        cv # ""}

\* C13: every score search_top_k_cvs returns for a cv_id is the sum of
\* match.score over exactly the matches bearing that cv_id, every resume the
\* matches bear was given that sum before the cut to top_k, and a match with
\* a missing or empty cv_id adds to no score.
C13_AggregateIsSumPerCv ==
    RankDone =>
        /\ \A n \in 1..Len(rank.result) :
              /\ rank.result[n].cv_id \in BorneCvIds
              /\ rank.result[n].score = SumFrom(1, rank.result[n].cv_id)
        /\ {rank.scores_by_cv[n][1] : n \in 1..Len(rank.scores_by_cv)} = BorneCvIds
        /\ \A n \in 1..Len(rank.scores_by_cv) :
              rank.scores_by_cv[n][2] = SumFrom(1, rank.scores_by_cv[n][1])

\* A result with a resume of two matches, from matches of which one has no
\* cv_id and another an empty one.
C13_Witness ==
    /\ RankDone
    /\ \E n \in 1..Len(rank.result) :
          Cardinality({k \in 1..Len(rank.matches) : Bears(k, rank.result[n].cv_id)}) = 2
    /\ \E k \in 1..Len(rank.matches) : ~HasKey(rank.matches[k].metadata, "cv_id")
    /\ \E k \in 1..Len(rank.matches) : Bears(k, "")

\* C14: the result of search_top_k_cvs has non-increasing scores, at most
\* top_k entries, each cv_id at most once, and no resume left out has an
\* aggregate score greater than that of a resume in the result.
C14_TopKRanking ==
    RankDone =>
        /\ \A m, n \in 1..Len(rank.result) :
              m < n => /\ rank.result[m].score >= rank.result[n].score
                       /\ rank.result[m].cv_id # rank.result[n].cv_id
        /\ Len(rank.result) <= rank.top_k
        /\ \A cv \in BorneCvIds \ Returned_cv_ids :
              \A n \in 1..Len(rank.result) : SumFrom(1, cv) <= rank.result[n].score

\* A full result of two resumes, a third one left out, where the order of
\* the result is not the order in which the resumes came up in the matches.
C14_Witness ==
    /\ RankDone /\ rank.top_k = 2 /\ Len(rank.result) = 2
    /\ BorneCvIds \ Returned_cv_ids # {}
    /\ rank.result[1].score > rank.result[2].score
    /\ rank.scores_by_cv[1][1] # rank.result[1].cv_id

(***************************************************************************)
(* Claims about the validation of the two retrieval functions              *)
(***************************************************************************)
\* find_similar_chunks has been entered and its arguments checked (the call
\* made by the route similar_chunks never enters it).
Checked == loop.pc \notin {"idle", "validate", "responded"}

RankChecked == rank.pc \notin {"idle", "validate"}

BlankText(jd_text) == \A n \in 1..Len(jd_text) : IsSpace(CharAt(jd_text, n))

OutOfRange(min_score) == min_score < 0 \/ min_score > 10000

\* C15: find_similar_chunks called with a blank jd_text or a min_score
\* outside [0,1], and search_top_k_cvs called with a blank jd_text, end with
\* a ValueError and without a call of embed_text or query_similar; a call
\* that is not rejected is not ended by the validation.
C15_RejectedBeforeAnyCall ==
    /\ Checked /\ (BlankText(args.jd_text) \/ OutOfRange(args.min_score)) =>
          loop.pc = "raised" /\ loop.exc.cls = "ValueError" /\ loop.calls = <<>>
    /\ RankChecked /\ BlankText(rank.jd_text) =>
          /\ rank.pc \in {"raised", "responded"}
          /\ rank.exc.cls = "ValueError" /\ rank.calls = <<>>
    /\ loop.pc = "raised" => BlankText(args.jd_text) \/ OutOfRange(args.min_score)
    /\ rank.pc = "raised" => BlankText(rank.jd_text)

\* find_similar_chunks has rejected a min_score above 1 for a jd_text that
\* is not blank.
C15_Witness ==
    /\ loop.pc = "raised" /\ loop.calls = <<>>
    /\ ~BlankText(args.jd_text) /\ OutOfRange(args.min_score)

(***************************************************************************)
(* Claims about the routes                                                 *)
(***************************************************************************)
Responded == loop.pc = "responded"

RankResponded == rank.pc = "responded"

\* C16: a request with a blank jd_text is answered with status 400 on
\* /internal/similar_chunks and on /internal/search_top_k_cvs, and status 500
\* answers only an error that is not an invalid input.
C16_InvalidInputIs400 ==
    /\ Responded /\ BlankText(args.jd_text) => loop.status = 400
    /\ RankResponded /\ BlankText(rank.jd_text) => rank.status = 400

(***************************************************************************)
(* Claims about the bootstrap of the index                                 *)
(***************************************************************************)
WrongDimension == index.exists /\ index.dim # REQUIRED_DIMENSION

\* Process c is about to use the index for the first time.
FirstUse(c) == cons[c].pc = "upsert" /\ cons[c].sent = 0 /\ ~handle[c]

Dict1(key, value) == JDict(<< <<key, value>> >>)

\* Sections a parsed resume can hold; <<>> stands for a section left out.
ExperienceOptions ==
    { <<>>,
      << <<"experience", JList(<<JDict(<< <<"company", JStr("Acme")>>,
              <<"bullets", JList(<<JStr("Led X"), JStr("Built Y")>>)>> >>)>>)>> >>,
      << <<"experience", JList(<<JDict(<< <<"title", JStr("Dev")>>,
              <<"bullets", JList(<<JStr(" Z "), JStr(" ")>>)>> >>)>>)>> >>,
      << <<"experience", JList(<<JDict(<< <<"company", JStr("Acme")>>,
              <<"title", JStr("Dev")>> >>)>>)>> >> }

ProjectsOptions ==
    { <<>>,
      << <<"projects", JList(<<JDict(<< <<"name", JStr("P")>>,
              <<"bullets", JList(<<>>)>> >>)>>)>> >>,
      << <<"projects", JList(<<JDict(<< <<"name", JStr("P")>>, <<"bullets", JList(<<>>)>>,
              <<"description", JStr(" D ")>> >>)>>)>> >>,
      << <<"projects", JList(<<JDict(<< <<"name", JStr("Q")>>,
                                        <<"bullets", JList(<<JStr("B"), JStr("")>>)>> >>),
                               JDict(<< <<"name", JStr("R")>>,
                                        <<"description", JStr(" ")>> >>)>>)>> >> }

SummaryOptions ==
    { <<>>,
      << <<"summary", Dict1("text", JStr("S"))>> >>,
      << <<"summary", Dict1("text", JStr("  "))>> >>,
      << <<"summary", JStr(" S ")>> >> }

SkillsOptions ==
    { <<>>,
      << <<"skills", Dict1("languages", JList(<<JStr("Go")>>))>> >>,
      << <<"skills", JDict(<< <<"languages", JList(<<JStr(" ")>>)>>,
                              <<"tools", JList(<<>>)>> >>)>> >> }

EducationOptions ==
    { <<>>,
      << <<"education", JList(<<JDict(<< <<"institution", JStr("MIT")>>,
                                         <<"degree", JStr("BSc")>> >>)>>)>> >>,
      << <<"education", JList(<<JDict(<< <<"degree", JStr("BSc")>>,
                                         <<"section", JStr("")>>,
                                         <<"cv_id", JStr("0ther")>> >>)>>)>> >> }

ContactOptions ==
    { <<>>, << <<"contact", Dict1("email", JStr("a@b.c"))>> >> }

\* The documents the document store can answer with.
Documents ==
    { Resume(e \o p \o c \o s \o k \o d) :
        e \in ExperienceOptions, p \in ProjectsOptions, c \in ContactOptions,
        s \in SummaryOptions, k \in SkillsOptions, d \in EducationOptions }

\* Documents with a malformed sub-object: a list item that is not an object,
\* a null list of bullets, a bullet that is not a string, a null field.
MalformedDocuments ==
    { Resume(<< <<"experience", JList(<<JStr("Acme")>>)>> >>),
      Resume(<< <<"experience", JList(<<JDict(<< <<"company", JStr("Acme")>>,
                                                 <<"bullets", JNull>> >>)>>)>> >>),
      Resume(<< <<"experience", JList(<<JDict(<< <<"company", JStr("Acme")>>,
                    <<"bullets", JList(<<JStr("Led X"), JInt(7)>>)>> >>)>>)>>,
                <<"summary", Dict1("text", JStr("S"))>> >>),
      Resume(<< <<"projects", JList(<<JNull, JDict(<< <<"name", JStr("P")>>,
                    <<"bullets", JList(<<JStr("B")>>)>> >>)>>)>> >>),
      Resume(<< <<"education", JList(<<JDict(<< <<"institution", JNull>>,
                                                <<"degree", JStr("BSc")>> >>)>>)>> >>) }

\* Lines 27-43: the call, the fetch answered 200, response.json().
Process(doc) ==
    /\ job.pc = "idle"
    /\ job' = [NoJob EXCEPT !.pc = "chunk", !.cv_id = "c0de", !.cv_data = doc]
    /\ UNCHANGED <<indexerVars, findVars, rank, gw, thr>>

\* Lines 45-77: the three chunkers; no chunk at all ends the call.
ChunkSections ==
    /\ job.pc = "chunk"
    /\ LET r == ChunkCv(job.cv_data, job.cv_id)
       IN  job' = IF ~r.ok THEN [job EXCEPT !.pc = "raised", !.exc = r.exc]
                  ELSE [job EXCEPT !.pc = IF r.chunks = <<>> THEN "done" ELSE "embed",
                                   !.all_chunks = r.chunks]
    /\ UNCHANGED <<indexerVars, findVars, rank, gw, thr>>

\* Line 80: embed_chunks adds an embedding to every chunk.
EmbedChunks ==
    /\ job.pc = "embed"
    /\ job' = [job EXCEPT !.pc = "upsert"]
    /\ UNCHANGED <<indexerVars, findVars, rank, gw, thr>>

RECURSIVE UpsertFrom(_, _, _)
\* pinecone_client.py lines 116-118: the batches, one index.upsert each.
UpsertFrom(st, vectors, i) ==
    IF i >= Len(vectors) THEN st
    ELSE UpsertFrom(Upserted(st, BatchAt(vectors, i)), vectors, i + batch_size)

\* Line 83: upsert_chunks_to_pinecone, all batches written.
UpsertChunks ==
    /\ job.pc = "upsert"
    /\ store' = UpsertFrom(store, Vectors(job.all_chunks), 0)
    /\ job' = [job EXCEPT !.pc = "done"]
    /\ UNCHANGED <<queue, body, unacked, connUp, cons, index, handle, ackIssued, firstIds,
                   again, findVars, rank, gw, thr>>

NextChunk ==
    \/ \E doc \in Documents \cup MalformedDocuments : Process(doc)
    \/ ChunkSections
    \/ EmbedChunks
    \/ UpsertChunks

SpecChunk == InitFind /\ [][NextChunk]_vars

(***************************************************************************)
(* Claims about the records and the chunker                                *)
(***************************************************************************)
\* The chunkers have returned.
Chunked == job.pc \in {"embed", "upsert", "done"}

\* upsert_chunks_to_pinecone has returned.
Uploaded == job.pc = "done" /\ job.all_chunks # <<>>

\* The value a record's metadata holds under key.
MetaOf(metadata, key) ==
    metadata[CHOOSE n \in 1..Len(metadata) : metadata[n][1] = key][2]

\* C18: the record written for each chunk carries in its metadata the cv_id
\* of the event, which is not empty, and the section of the chunk, which is
\* not empty, whatever other metadata the chunk has.
C18_RecordCarriesCvIdAndSection ==
    Uploaded =>
        \A i \in 1..Len(job.all_chunks) :
            LET chunk == job.all_chunks[i]
                metadata == store[VectorId(chunk, i - 1)].metadata
            IN  /\ MetaOf(metadata, "cv_id") = job.cv_id
                /\ MetaOf(metadata, "cv_id") # ""
                /\ MetaOf(metadata, "section") = chunk.section
                /\ MetaOf(metadata, "section") # ""

\* No list of bullets of the documents is longer.
MaxBullets == 2

\* The lists of a well-formed resume.
ExperienceOf(cv_data) ==
    Get(Get(cv_data, "structured_sections", JDict(<<>>)), "experience", JList(<<>>)).v

ProjectsOf(cv_data) ==
    Get(Get(cv_data, "structured_sections", JDict(<<>>)), "projects", JList(<<>>)).v

NonBlank(j) == j.t = "str" /\ ~BlankText(j.v)

\* The bullets of a list entry that are not blank, by position.
NonBlankBullets(entry) ==
    LET bullets == Get(entry, "bullets", JList(<<>>)).v
    IN  {b \in 1..Len(bullets) : NonBlank(bullets[b])}

\* N: the non-blank experience bullets of the document.
ExperienceBullets(cv_data) ==
    {<<e, b>> \in (1..Len(ExperienceOf(cv_data))) \X (1..MaxBullets) :
        b \in NonBlankBullets(ExperienceOf(cv_data)[e])}

\* M: the non-blank project bullets, and for a project without bullets its
\* non-blank description, as bullet 0.
ProjectBullets(cv_data) ==
    {<<p, b>> \in (1..Len(ProjectsOf(cv_data))) \X (0..MaxBullets) :
        LET project == ProjectsOf(cv_data)[p]
        IN  IF Get(project, "bullets", JList(<<>>)).v = <<>>
            THEN b = 0 /\ NonBlank(Get(project, "description", JNull))
            ELSE b \in NonBlankBullets(project)}

ChunksOfSection(section) ==
    {i \in 1..Len(job.all_chunks) : job.all_chunks[i].section = section}

\* The resume of scenario S1.
S1Resume ==
    Resume(<< <<"experience", JList(<<JDict(<< <<"company", JStr("Acme")>>,
                  <<"bullets", JList(<<JStr("Led X"), JStr("Built Y")>>)>> >>)>>)>>,
              <<"projects", JList(<<JDict(<< <<"name", JStr("P")>>,
                  <<"bullets", JList(<<>>)>> >>)>>)>>,
              <<"summary", Dict1("text", JStr("S"))>>,
              <<"skills", Dict1("languages", JList(<<JStr("Go")>>))>> >>)

\* C19: the chunks built for a resume hold exactly one chunk of section
\* "experience" per non-blank experience bullet and one of section "projects"
\* per non-blank project bullet or, for a project without bullets, non-blank
\* description; the resume of scenario S1 gives four chunks.
C19_ChunkCounts ==
    Chunked =>
        /\ Cardinality(ChunksOfSection("experience"))
              = Cardinality(ExperienceBullets(job.cv_data))
        /\ Cardinality(ChunksOfSection("projects"))
              = Cardinality(ProjectBullets(job.cv_data))
        /\ job.cv_data = S1Resume =>
              [i \in 1..Len(job.all_chunks) |-> job.all_chunks[i].text]
                  = <<"Acme - Led X", "Acme - Built Y", "S", "Go">>

\* A resume with a blank bullet next to a good one, and a project whose
\* description stands for its missing bullets, has been chunked.
C19_Witness ==
    /\ job.pc = "done"
    /\ Cardinality(ExperienceBullets(job.cv_data)) = 1
    /\ Len(Get(ExperienceOf(job.cv_data)[1], "bullets", JList(<<>>)).v) = 2
    /\ \E i \in ChunksOfSection("projects") :
          Get(JDict(job.all_chunks[i].metadata), "type", JNull) = JStr("project_description")

\* C20: every chunk the chunkers build has a text that is not empty and has
\* no whitespace at either end, and no chunk has section "contact".
C20_TextNonEmptyTrimmed ==
    Chunked =>
        \A i \in 1..Len(job.all_chunks) :
            /\ job.all_chunks[i].text # ""
            /\ Strip(job.all_chunks[i].text) = job.all_chunks[i].text
            /\ job.all_chunks[i].section # "contact"

\* C21: whatever malformed sub-object the document holds, the chunking
\* functions return a list of chunks and raise no error.
C21_ChunkerNeverRaises ==
    job.pc # "raised"

(***************************************************************************)
(* The consumer together with a query on the store it fills                *)
(***************************************************************************)
MaxK == 2

\* The cosine score of a record, in 1/10000: 1 for the query vector itself;
\* for another vector the model does not say.
ScoreLevels == {6000, 10000}

\* The record of the summary of a resume indexed earlier, whose summary text
\* is the same as that of a3f0.
PeerStore ==
    [id \in {"0ther_summary_0"} |->
       [values |-> Embedding("S"),
        metadata |-> << <<"cv_id", "0ther">>, <<"section", "summary">>, <<"text", "S">>,
                        <<"type", "summary">> >>]]

InitRound ==
    /\ NoFind
    /\ queue = <<>>
    /\ body = [m \in Msgs |-> Unpublished]
    /\ unacked = [c \in Consumers |-> 0]
    /\ connUp = [c \in Consumers |-> FALSE]
    /\ cons = [c \in Consumers |-> Fresh("connect")]
    /\ index = [exists |-> TRUE, dim |-> REQUIRED_DIMENSION]
    /\ store \in {EmptyStore, PeerStore}
    /\ handle = [c \in Consumers |-> FALSE]
    /\ ackIssued = {}
    /\ firstIds = [cv \in CvIds |-> NotYet]
    /\ again = [cv \in CvIds |-> FALSE]

\* r.summary.text of the stored document of cv.
SummaryText(cv) ==
    Get(Get(Get(DocStore[cv], "structured_sections", JDict(<<>>)), "summary", JDict(<<>>)),
        "text", JNull)

\* The ways the records of st can score against query_vector.
Scorings(st, query_vector) ==
    {f \in [{st[id].values : id \in DOMAIN st} -> ScoreLevels] :
        \A v \in DOMAIN f : v = query_vector => f[v] = 10000}

\* index.query(top_k): as many records as there are, up to top_k, none left
\* out scoring higher than one returned; which of two equal scores is left
\* out is the store's choice.
TopSets(st, f, top_k) ==
    {S \in SUBSET DOMAIN st :
        /\ Cardinality(S) = (IF top_k < Cardinality(DOMAIN st) THEN top_k
                             ELSE Cardinality(DOMAIN st))
        /\ \A i \in S, j \in (DOMAIN st) \ S : f[st[i].values] >= f[st[j].values]}

QueryMatchesNoMetadata(st, f, S) ==
    CHOOSE ms \in [1..Cardinality(S) -> {[id |-> id, score |-> f[st[id].values],
                                           metadata |-> JDict(<<>>)] : id \in S}] :
        /\ \A m, n \in DOMAIN ms : m < n => ms[m].id # ms[n].id /\ ms[m].score >= ms[n].score

\* pinecone_client.py lines 151-166: the matches, the best first, with the
\* metadata of the records.
QueryMatches(st, f, S) ==
    LET pairs(id) == [n \in 1..Len(st[id].metadata) |->
                        <<st[id].metadata[n][1], JStr(st[id].metadata[n][2])>>]
    IN  CHOOSE ms \in [1..Cardinality(S) -> {Match(id, f[st[id].values], pairs(id)) : id \in S}] :
            /\ \A m, n \in DOMAIN ms : m < n => ms[m].id # ms[n].id /\ ms[m].score >= ms[n].score

\* search_top_k_cvs lines 227-236 called with the summary text of a resume
\* whose event was acked, against the store as it is.
RoundTripQuery ==
    /\ loop.pc = "idle" /\ rank.pc = "idle"
    /\ \E m \in ackIssued, k \in 1..MaxK :
          LET cv == EventCv(m)
              text == SummaryText(cv)
          IN  /\ text.t = "str" /\ text.v # ""
              /\ IF IsBlank(text.v)
                 THEN rank' = [RankLocals("raised") EXCEPT
                                  !.cv_id = cv, !.jd_text = text.v, !.raw_top_k = k,
                                  !.exc = Exc("ValueError", "Job description text cannot be empty")]
                 ELSE \E f \in Scorings(store, Embedding(text.v)) :
                         \E S \in TopSets(store, f, k) :
                            rank' = [RankLocals("queried") EXCEPT
                                        !.cv_id = cv, !.jd_text = text.v, !.raw_top_k = k,
                                        !.matches = QueryMatches(store, f, S),
                                        !.calls = <<"embed_text", "query_similar">>]
    /\ UNCHANGED <<indexerVars, findVars, job, gw, thr>>

NextRound ==
    \/ \E m \in Msgs, b \in Bodies : Publish(m, b)
    \/ \E c \in Solo : Indexer(c)
    \/ RoundTripQuery

SpecRound == InitRound /\ [][NextRound]_vars

(***************************************************************************)
(* Claims about the round trip                                             *)
(***************************************************************************)
\* The query of the round trip is over, answered or not.
Probed == rank.pc \in {"queried", "raised"} /\ rank.cv_id # ""

OwnMatch == \E n \in 1..Len(rank.matches) : Bears(n, rank.cv_id)

\* The records in the store that are not of the resume of the query.
OtherRecords == (DOMAIN store) \ IdsOf(rank.cv_id, store)

\* C22: a query with the summary text of a resume whose event was processed
\* and acked, the summary being non-empty (here: not even blank) and top_k at
\* least 1, returns a match whose cv_id is that of the resume.
C22_RoundTrip ==
    Probed /\ ~BlankText(rank.jd_text) => rank.pc = "queried" /\ OwnMatch

\* C22 as amended: the query returns a match of the resume when the summary
\* text is not blank and top_k is greater than the number of records of
\* other resumes in the store.
C22_RoundTripWhenRoom ==
    Probed /\ ~BlankText(rank.jd_text) /\ rank.raw_top_k > Cardinality(OtherRecords) =>
        rank.pc = "queried" /\ OwnMatch

\* The query asked for two matches of a store that holds the summary record
\* of another resume next to the records of the resume asked for.
C22_Witness ==
    /\ rank.pc = "queried" /\ rank.raw_top_k = 2
    /\ Cardinality(OtherRecords) = 1
    /\ OwnMatch
    /\ \E n \in 1..Len(rank.matches) : Bears(n, "0ther")

(***************************************************************************)
(* Two indexer instances on the same queue                                 *)
(***************************************************************************)
\* The messages the publisher sends when two instances run: a resume with
\* chunks first, then one without.
DuoBody(m) == IF m = 1 THEN Event(JStr("a3f0")) ELSE Event(JStr("b1455c"))

InitDuo ==
    /\ Init
    /\ index.exists /\ index.dim = REQUIRED_DIMENSION

NextDuo ==
    \/ \E m \in Msgs : Publish(m, DuoBody(m))
    \/ \E c \in Consumers : Indexer(c)

SpecDuo == InitDuo /\ [][NextDuo]_vars

Failing(c) ==
    \/ connUp[c] /\ ~connUp'[c]
    \/ cons[c].pc = "connect" /\ cons'[c].pc = "backoff"
    \/ /\ cons[c].pc \in {"fetch", "embed", "upsert"}
       /\ cons'[c].pc = "returned"
       /\ cons'[c].fault \in {"fetch_5xx", "fetch_network", "embed_resource",
                              "embed_other", "upsert_transient"}

NextLive ==
    \/ \E m \in Msgs : Publish(m, DuoBody(m))
    \/ \E c \in Solo : Indexer(c)

\* The process, a single thread in a while True loop, keeps taking its next
\* step; a connection that is up may stay up.  Fetch and Upsert are enabled
\* exactly at their position of the process and are the only steps that leave
\* it, so their weak fairness is that the process is time and again elsewhere.
Scheduled(c) ==
    /\ WF_vars(Connect(c)) /\ WF_vars(Backoff(c)) /\ WF_vars(Deliver(c))
    /\ WF_vars(Parse(c)) /\ WF_vars(Embed(c)) /\ WF_vars(AckStep(c))
    /\ WF_vars(Return(c))
    /\ []<>(cons[c].pc # "fetch")
    /\ []<>(cons[c].pc # "upsert")

\* Every failure is transient: from some point on none occurs.
SpecLive ==
    /\ Init
    /\ [][NextLive]_vars
    /\ <>[][\A c \in Solo : ~Failing(c)]_vars
    /\ \A c \in Solo : Scheduled(c)

\* Message m is with the broker: ready, or delivered and not settled.
Pending(m) == Requeued(m) \/ \E c \in Consumers : unacked[c] = m

\* The callback of m has just settled it with a basic_ack the broker took.
AckedNow(m) ==
    \E c \in Consumers :
        Settled(c) /\ cons[c].msg = m /\ cons[c].calls = <<Ack>> /\ ~cons[c].chanErr

\* The callback of m has just settled it with a basic_nack(requeue=False) the
\* broker took.
DroppedNow(m) ==
    \E c \in Consumers :
        Settled(c) /\ cons[c].msg = m /\ cons[c].calls = <<Nack(FALSE)>> /\ ~cons[c].chanErr

AllRecordsStored(m) == \A k \in 1..Len(ChunksOfMsg(m)) : InStore(ChunksOfMsg(m)[k])

\* C24 as stated: an event whose document exists, every failure being
\* transient and the scheduling fair, is eventually acked, and when it is
\* acked all of its records are in the store.
C24_EventuallyAcked ==
    \A m \in Msgs :
        /\ Pending(m) ~> AckedNow(m)
        /\ [](AckedNow(m) => AllRecordsStored(m))

\* C24 as amended: such an event is eventually acked or, when one of its
\* failures was classified as resource exhaustion, dropped by a
\* basic_nack(requeue=False); when it is acked all of its records are in the
\* store.
C24_EventuallyAckedOrDropped ==
    \A m \in Msgs :
        /\ Pending(m) ~> (AckedNow(m) \/ DroppedNow(m))
        /\ [](AckedNow(m) => AllRecordsStored(m))

\* The event of a3f0 is acked on a later delivery, an earlier processing
\* having been completed, with all four records stored.
C24_Witness ==
    /\ AckedNow(1) /\ again["a3f0"]
    /\ Len(ChunksOfMsg(1)) = 4 /\ AllRecordsStored(1)


(***************************************************************************)
(* Claims about payloads that cannot be parsed                             *)
(***************************************************************************)
\* C25: a message whose body is not valid JSON, or is JSON that is not an
\* object, is settled with basic_nack(requeue=False) and is not among the
\* ready messages afterwards.
C25_UnparsableIsPoison ==
    \A c \in Consumers :
        Settled(c) /\ ~cons[c].chanErr
          /\ cons[c].fault \in {"parse_invalid", "parse_nonobject"} =>
            /\ cons[c].calls = <<Nack(FALSE)>>
            /\ ~Requeued(cons[c].msg)

(***************************************************************************)
(* Claims about the order of the chunks find_similar_chunks returns        *)
(***************************************************************************)
\* list' is list, or list with the chunk of the match at hand at its end.
GrowsAtEnd(list, after) ==
    \/ after = list
    \/ loop.i <= Len(matches) /\ after = Append(list, ChunkOf(loop.i))

\* C26: the chunks returned are the accepted chunks of the sections other
\* than "summary" followed by the accepted summary chunks, and each group is
\* in the order of acceptance: while the matches are walked, an accepted chunk
\* goes to the end of its group and no chunk of a group moves or leaves.
C26_BulletsThenSummariesInAcceptOrder ==
    /\ [](Done =>
            \E n \in 0..Len(loop.chunks) :
               /\ \A k \in 1..n : loop.chunks[k].section # "summary"
               /\ \A k \in (n + 1)..Len(loop.chunks) : loop.chunks[k].section = "summary"
               /\ SubSeq(loop.chunks, 1, n) = loop.bullet_chunks
               /\ SubSeq(loop.chunks, n + 1, Len(loop.chunks)) = loop.summary_chunks)
    /\ [][loop.pc \in {"loop", "return", "done"} =>
            /\ GrowsAtEnd(loop.bullet_chunks, loop'.bullet_chunks)
            /\ GrowsAtEnd(loop.summary_chunks, loop'.summary_chunks)]_vars

\* A summary was accepted before a bullet (the matches come by descending
\* score) and is returned after it.
C26_Witness ==
    /\ Done /\ Len(loop.chunks) = 2
    /\ loop.chunks[1].section # "summary" /\ loop.chunks[2].section = "summary"
    /\ loop.chunks[2].score > loop.chunks[1].score
    /\ \E i, j \in 1..Len(matches) :
          /\ i < j
          /\ ChunkOf(i) = loop.chunks[2]
          /\ ChunkOf(j) = loop.chunks[1]

(***************************************************************************)
(* upsert_chunks_to_pinecone on inputs of more than one batch              *)
(***************************************************************************)
\* The lengths of the inputs: none, and below, at and above one, two and more
\* batches.
ChunkCounts == {0, 1, 2, 99, 100, 101, 102, 150, 199, 200, 201, 202, 250}

\* The embedded chunks of a resume with n experience bullets.
EmbeddedChunks(n) ==
    [k \in 1..n |->
       Chunk("c0de", "experience", "Acme - Did it",
             << <<"type", JStr("experience_bullet")>>, <<"bullet_index", JInt(k - 1)>> >>)]

\* service.py line 83: process_cv_for_embedding calls upsert_chunks_to_pinecone.
CallUpsert(chunks) ==
    /\ job.pc = "idle"
    /\ job' = [NoJob EXCEPT !.pc = "upsert", !.cv_id = "c0de", !.all_chunks = chunks]
    /\ UNCHANGED <<indexerVars, findVars, rank, gw, thr>>

Ids(batch) == [k \in 1..Len(batch) |-> batch[k].id]

\* pinecone_client.py lines 84-119: the return on an empty input, then one
\* step per index.upsert call, the first one preceded by get_index and the
\* preparation of the vectors; an exception of index.upsert leaves
\* upsert_chunks_to_pinecone and, re-raised at service.py line 89,
\* process_cv_for_embedding.
UpsertBatch ==
    LET g == IF job.sent = 0 THEN get_index(handle[1], index, store)
             ELSE get_index(TRUE, index, store)
        vectors == Vectors(job.all_chunks)
        batch == BatchAt(vectors, job.sent)
        finished == job.sent + Len(batch) >= Len(vectors)
    IN  /\ job.pc = "upsert"
        /\ IF job.all_chunks = <<>>
           THEN /\ job' = [job EXCEPT !.pc = "done"]
                /\ UNCHANGED <<store, index, handle>>
           ELSE IF ~g.ok
           THEN /\ job' = [job EXCEPT !.pc = "raised", !.exc = g.exc]
                /\ UNCHANGED <<store, index, handle>>
           ELSE /\ index' = g.index
                /\ handle' = [handle EXCEPT ![1] = TRUE]
                /\ \/ /\ store' = Upserted(g.store, batch)
                      /\ job' = [job EXCEPT !.sent = job.sent + Len(batch),
                                            !.calls = Append(job.calls, Ids(batch)),
                                            !.pc = IF finished THEN "done" ELSE "upsert"]
                   \/ /\ store' = g.store
                      /\ \E e \in UpsertErrors :
                            job' = [job EXCEPT !.pc = "raised", !.exc = e,
                                               !.calls = Append(job.calls, Ids(batch))]
        /\ UNCHANGED <<queue, body, unacked, connUp, cons, ackIssued, firstIds, again, findVars, rank, gw, thr>>

NextBatch ==
    \/ \E n \in ChunkCounts : CallUpsert(EmbeddedChunks(n))
    \/ UpsertBatch

SpecBatch == InitFind /\ [][NextBatch]_vars

\* index.upsert raised.
UpsertFailed == job.pc = "raised" /\ job.calls # <<>>

\* The calls made so far without the one that raised.
Completed == IF UpsertFailed THEN SubSeq(job.calls, 1, Len(job.calls) - 1) ELSE job.calls

\* C27: every index.upsert call carries between 1 and 100 records; when
\* upsert_chunks_to_pinecone returns, the calls together carried every record
\* of the input exactly once; when a call raises, the records of the calls
\* before it are in the store, the calls made are the first batches of the
\* input, no call follows and the exception leaves process_cv_for_embedding.
C27_BatchesOfAtMost100 ==
    /\ [](\A k \in 1..Len(job.calls) :
             1 <= Len(job.calls[k]) /\ Len(job.calls[k]) <= 100)
    /\ [](job.pc = "done" /\ job.all_chunks # <<>> =>
             Flatten(job.calls) = Ids(Vectors(job.all_chunks)))
    /\ [](UpsertFailed =>
             /\ job.exc \in UpsertErrors
             /\ Flatten(job.calls)
                  = SubSeq(Ids(Vectors(job.all_chunks)), 1, Len(Flatten(job.calls)))
             /\ DOMAIN store = {Flatten(Completed)[n] : n \in 1..Len(Flatten(Completed))})
    /\ [][UpsertFailed => job' = job /\ store' = store]_vars

\* The third call of a resume of more than 200 records raises, the 200
\* records of the first two calls being written.
C27_Witness ==
    /\ UpsertFailed /\ Len(job.calls) = 3
    /\ Len(job.calls[1]) = 100 /\ Len(job.calls[2]) = 100 /\ Len(job.calls[3]) = 50
    /\ Cardinality(DOMAIN store) = 200

(***************************************************************************)
(* Claims about the reconnection loop of start_consumer                    *)
(***************************************************************************)
\* C28: start_consumer stays in its loop: a connection that cannot be opened,
\* or that drops while the process waits in start_consuming, takes it to the
\* backoff sleep; the sleep is followed by a new connection attempt and a new
\* attempt is made only after the sleep; the failures being transient, the
\* process is back in start_consuming on an open connection.
C28_ReconnectsAfterBackoff ==
    /\ [](\A c \in Solo : cons[c].pc = "wait" => connUp[c])
    /\ [][\A c \in Solo :
            /\ cons[c].pc = "connect" /\ cons'[c].pc # "connect" =>
                  \/ connUp'[c] /\ cons'[c].pc = "wait"
                  \/ ~connUp'[c] /\ cons'[c].pc = "backoff"
            /\ cons[c].pc = "wait" /\ connUp[c] /\ ~connUp'[c] => cons'[c].pc = "backoff"
            /\ cons'[c].pc = "connect" => cons[c].pc \in {"connect", "backoff"}
            /\ cons[c].pc = "backoff" /\ cons'[c] # cons[c] => cons'[c].pc = "connect"]_vars
    /\ \A c \in Solo : cons[c].pc = "backoff" ~> cons[c].pc = "connect"
    /\ \A c \in Solo : ~connUp[c] ~> (connUp[c] /\ cons[c].pc = "wait")

\* The connection dropped while the process, having acked a message, waited
\* in start_consuming: it is in the backoff sleep.
C28_Witness ==
    /\ cons[1].pc = "backoff" /\ ~connUp[1]
    /\ ackIssued # {} /\ queue # <<>>

(***************************************************************************)
(* api_gateway: routes.py, POST /tailored_bullets                          *)
(***************************************************************************)
JobDescriptions == {"go developer", "data engineer"}

GwChunk(text, section, cv_id, score) ==
    JDict(<< <<"text", JStr(text)>>, <<"section", JStr(section)>>,
             <<"cv_id", JStr(cv_id)>>, <<"score", JInt(score)>> >>)

GwChunkPool ==
    { GwChunk("Acme - Led X", "experience", "a3f0", 9000),
      GwChunk("P - Built Y", "projects", "b1455c", 8000),
      GwChunk("S", "summary", "a3f0", 7600) }

\* The bodies a 200 of /internal/similar_chunks can carry: an object with a
\* list of up to two chunks, an object without chunks or with a null, or JSON
\* that is no object.
SimilarBodies ==
    {JDict(<< <<"success", JStr("true")>>, <<"chunks", JList(<<>>)>> >>)}
    \cup {JDict(<< <<"chunks", JList(<<x>>)>> >>) : x \in GwChunkPool}
    \cup {JDict(<< <<"chunks", JList(<<x, y>>)>> >>) : x \in GwChunkPool, y \in GwChunkPool}
    \cup {JDict(<<>>), JDict(<< <<"chunks", JNull>> >>), JList(<<>>)}

\* What requests.post and raise_for_status raise in vector_client.
SimilarErrors ==
    { Exc("ConnectionError", "Max retries exceeded with url: /internal/similar_chunks"),
      Exc("ReadTimeout", "Read timed out. (read timeout=30)"),
      Exc("HTTPError", "400 Client Error: Bad Request for url: /internal/similar_chunks"),
      Exc("HTTPError", "500 Server Error: Internal Server Error for url: /internal/similar_chunks") }

\* vector_client.py lines 31-46: find_similar_chunks given the outcome of the
\* HTTP call; a RequestException is wrapped, anything else propagates as it is.
find_similar_chunks(outcome) ==
    IF ~outcome.ok
    THEN [ok |-> FALSE, value |-> JNull,
          exc |-> Exc("Exception", "Failed to find similar chunks: " \o outcome.exc.text)]
    ELSE IF outcome.body.t # "dict"
    THEN [ok |-> FALSE, value |-> JNull, exc |-> NoGet(outcome.body)]
    ELSE [ok |-> TRUE, value |-> Get(outcome.body, "chunks", JList(<<>>)), exc |-> Exc("", "")]

\* The bodies a 200 of /internal/tailored_bullets can carry.
BulletBodies ==
    { JDict(<< <<"tailored_bullets", JList(<<JStr("Led X in Go")>>)>>, <<"count", JInt(1)>> >>),
      JDict(<< <<"tailored_bullets", JList(<<>>)>>, <<"count", JInt(0)>> >>),
      JDict(<<>>) }

\* gemini_client.py lines 91-105: any status but 200 raises; an exception of
\* requests.post propagates as it is.
BulletErrors ==
    { Exc("Exception", "GeminiService error: 500"),
      Exc("ConnectionError", "Max retries exceeded with url: /internal/tailored_bullets") }

HandlerNeverSeesNoChunks(chunks) == FALSE

\* routes.py line 182: if not similar_chunks
NoChunks(chunks) == ~Truthy(chunks)

\* Line 203: except Exception -> HTTPException(status_code=500, ...)
GwFailed(g, e) ==
    [g EXCEPT !.pc = "answered", !.exc = e, !.status = 500,
              !.answer = Dict1("detail",
                               JStr("Failed to generate tailored bullets: " \o e.text))]

\* A POST /tailored_bullets arrives and the handler is entered.
GwRequest ==
    /\ gw.pc = "idle"
    /\ \E jd \in JobDescriptions : gw' = [NoGw EXCEPT !.pc = "chunks", !.job_description = jd]
    /\ UNCHANGED <<indexerVars, findVars, rank, job, thr>>

\* Lines 176-188: the similar-chunks call and the answer without chunks.
GwFindChunks ==
    /\ gw.pc = "chunks"
    /\ \E outcome \in {[ok |-> TRUE, body |-> b, exc |-> Exc("", "")] : b \in SimilarBodies}
                      \cup {[ok |-> FALSE, body |-> JNull, exc |-> e] : e \in SimilarErrors} :
          LET r == find_similar_chunks(outcome)
              g == [gw EXCEPT !.calls = <<"similar_chunks">>]
          IN  gw' = IF ~r.ok THEN GwFailed(g, r.exc)
                    ELSE IF NoChunks(r.value)
                    THEN [g EXCEPT !.pc = "answered", !.sim = r.value, !.status = 200,
                                   !.answer = JDict(<< <<"success", JStr("true")>>,
                                        <<"message", JStr("No similar chunks found. Try uploading more CVs.")>>,
                                        <<"tailored_bullets", JList(<<>>)>>,
                                        <<"count", JInt(0)>> >>)]
                    ELSE [g EXCEPT !.pc = "llm", !.sim = r.value]
    /\ UNCHANGED <<indexerVars, findVars, rank, job, thr>>

\* Lines 191-198: the bullet-synthesis call and the answer built from it.
GwGenerate ==
    /\ gw.pc = "llm"
    /\ LET g == [gw EXCEPT !.calls = Append(gw.calls, "tailored_bullets")]
       IN  \/ \E e \in BulletErrors : gw' = GwFailed(g, e)
           \/ \E result \in BulletBodies :
                 gw' = [g EXCEPT !.pc = "answered", !.status = 200,
                                 !.answer = JDict(<< <<"success", JStr("true")>>,
                                      <<"tailored_bullets",
                                        Get(result, "tailored_bullets", JList(<<>>))>>,
                                      <<"count", Get(result, "count", JInt(0))>>,
                                      <<"chunks_used", JInt(Len(gw.sim.v))>> >>)]
    /\ UNCHANGED <<indexerVars, findVars, rank, job, thr>>

\* The answer is sent; the handler is ready for the next request.
GwAnswer ==
    /\ gw.pc = "answered"
    /\ gw' = NoGw
    /\ UNCHANGED <<indexerVars, findVars, rank, job, thr>>

NextGate ==
    \/ GwRequest
    \/ GwFindChunks
    \/ GwGenerate
    \/ GwAnswer

SpecGate == InitFind /\ [][NextGate]_vars

\* C29: the bullet-synthesis service is called only after the similar-chunks
\* call has returned a list that is not empty; when that call returns no
\* chunk the handler answers success with an empty tailored_bullets and count
\* 0 without calling the bullet-synthesis service; when that call fails the
\* handler answers 500 without calling it.
C29_LlmOnlyAfterChunks ==
    /\ (\E k \in 1..Len(gw.calls) : gw.calls[k] = "tailored_bullets") =>
          /\ gw.calls = <<"similar_chunks", "tailored_bullets">>
          /\ gw.sim.t = "list" /\ Len(gw.sim.v) > 0
    /\ gw.pc = "llm" => gw.sim.t = "list" /\ Len(gw.sim.v) > 0
    /\ gw.pc = "answered" /\ gw.calls = <<"similar_chunks">> /\ gw.exc = Exc("", "") =>
          /\ ~Truthy(gw.sim)
          /\ gw.status = 200
          /\ Get(gw.answer, "tailored_bullets", JNull) = JList(<<>>)
          /\ Get(gw.answer, "count", JNull) = JInt(0)
    /\ gw.pc = "answered" /\ gw.calls = <<"similar_chunks">> /\ gw.exc # Exc("", "") =>
          gw.status = 500
    /\ gw.pc = "answered" => gw.calls # <<>> /\ gw.calls[1] = "similar_chunks"

\* The similar-chunks call returned an empty list and the handler answered
\* without a second call.
C29_Witness ==
    /\ gw.pc = "answered" /\ gw.sim = JList(<<>>)
    /\ gw.calls = <<"similar_chunks">> /\ gw.status = 200

(***************************************************************************)
(* pinecone_client.py: get_index called by two threads of one process      *)
(***************************************************************************)
\* The process-wide _index is handle[1]; the account's index is index.

\* What create_index answers when the name is taken.
AlreadyExists ==
    Exc("PineconeApiException", "(409) Reason: Conflict: Resource already exists")

Moved(t, pc) == [thr EXCEPT !.pc[t] = pc]

\* A thread makes its first call to get_index.
Enter(t) ==
    /\ thr.pc[t] = "idle"
    /\ thr' = Moved(t, "check")
    /\ UNCHANGED <<indexerVars, findVars, rank, job, gw>>

\* Line 27: if _index is None
CheckHandle(t) ==
    /\ thr.pc[t] = "check"
    /\ thr' = Moved(t, IF handle[1] THEN "done" ELSE "list")
    /\ UNCHANGED <<indexerVars, findVars, rank, job, gw>>

\* Line 32: if PINECONE_INDEX_NAME not in pc.list_indexes().names()
ListIndexes(t) ==
    /\ thr.pc[t] = "list"
    /\ thr' = Moved(t, IF index.exists THEN "describe" ELSE "create")
    /\ UNCHANGED <<indexerVars, findVars, rank, job, gw>>

\* Lines 34-39: pc.create_index; the service refuses a name that is taken.
CreateIndex(t) ==
    /\ thr.pc[t] = "create"
    /\ IF index.exists
       THEN /\ thr' = [thr EXCEPT !.pc[t] = "raised", !.exc[t] = AlreadyExists,
                                  !.creates = thr.creates + 1]
            /\ UNCHANGED index
       ELSE /\ thr' = [thr EXCEPT !.pc[t] = "bind", !.creates = thr.creates + 1]
            /\ index' = [exists |-> TRUE, dim |-> REQUIRED_DIMENSION]
    /\ UNCHANGED <<queue, body, unacked, connUp, cons, store, handle, ackIssued, firstIds, again,
                   findVars, rank, job, gw>>

\* Lines 42-70: the index exists; its dimension is checked, and an empty index
\* of another dimension is deleted and created anew.
DescribeIndex(t) ==
    /\ thr.pc[t] = "describe"
    /\ LET g == get_index(FALSE, index, store)
           recreated == g.ok /\ index.dim # REQUIRED_DIMENSION
       IN  /\ thr' = IF g.ok
                     THEN [thr EXCEPT !.pc[t] = "bind",
                                      !.creates = IF recreated THEN thr.creates + 1 ELSE thr.creates]
                     ELSE [thr EXCEPT !.pc[t] = "raised", !.exc[t] = g.exc]
           /\ index' = g.index
           /\ store' = g.store
    /\ UNCHANGED <<queue, body, unacked, connUp, cons, handle, ackIssued, firstIds, again,
                   findVars, rank, job, gw>>

\* Lines 72-75: _index = pc.Index(PINECONE_INDEX_NAME); return _index
BindHandle(t) ==
    /\ thr.pc[t] = "bind"
    /\ handle' = [handle EXCEPT ![1] = TRUE]
    /\ thr' = Moved(t, "done")
    /\ UNCHANGED <<queue, body, unacked, connUp, cons, store, index, ackIssued, firstIds, again,
                   findVars, rank, job, gw>>

GetIndex(t) ==
    \/ Enter(t)
    \/ CheckHandle(t)
    \/ ListIndexes(t)
    \/ CreateIndex(t)
    \/ DescribeIndex(t)
    \/ BindHandle(t)

\* The account holds no index or one of either dimension, empty or not.
NextThreads == \E t \in Threads : GetIndex(t)

SpecThreads == InitBoot /\ [][NextThreads]_vars

\* C30: when the two threads make the first call to get_index and the index
\* does not exist yet, create_index is issued at most once and no thread's
\* call raises.
C30_SingletonSafeUnderConcurrency ==
    /\ thr.creates <= 1
    /\ \A t \in Threads : thr.pc[t] # "raised" \/ thr.exc[t] # AlreadyExists

============================================================================
